---------------------------- MODULE Spec2Model ----------------------------
(***************************************************************************)
(* A model of PlasmaPy's neoclassical transport code:                      *)
(*   plasmapy/transport/Houlberg1997.py  (ExtendedParticleList)            *)
(*   plasmapy/plasma/fluxsurface.py      (FluxSurface)                     *)
(*   plasmapy/transport/flows.py         (FlowCalculator)                  *)
(*                                                                         *)
(* Floating point values are modelled as exact rationals extended with     *)
(* the IEEE special values: [n |-> p, d |-> q] with q > 0 is p/q,          *)
(* [n |-> 1, d |-> 0] is +inf, [n |-> -1, d |-> 0] is -inf and             *)
(* [n |-> 0, d |-> 0] is NaN.  Rounding is not modelled.                   *)
(***************************************************************************)
EXTENDS Integers, Sequences, FiniteSets, TLC

VARIABLES
    args,        \* arguments of the ExtendedParticleList(...) call
    epl,         \* the ExtendedParticleList object (or the exception raised)
    ret,         \* the last property read / method call and its result
    lnLambda0,   \* what Coulomb_logarithm yields for a degenerate pair
    fs_args,     \* arguments of the FluxSurface(...) call
    fs,          \* the FluxSurface object (or the exception raised)
    all_species, \* the ExtendedParticleLists handed to FlowCalculator
    fc,          \* the FlowCalculator object (or the exception raised)
    tracker,     \* the ParticleTracker object and the position of its run()
    factory      \* the BasicRegistrationFactory object and its call history

vars == <<args, epl, ret, lnLambda0, fs_args, fs, all_species, fc, tracker, factory>>

(***************************************************************************)
(* Extended rational arithmetic (numpy float64 semantics for 0/0, x/0,     *)
(* 0*inf, inf-inf).                                                        *)
(***************************************************************************)
Abs(x) == IF x < 0 THEN -x ELSE x

Sign(x) == IF x < 0 THEN -1 ELSE IF x = 0 THEN 0 ELSE 1

RECURSIVE GCD(_, _)
GCD(a, b) == IF b = 0 THEN a ELSE GCD(b, a % b)

Q(p, q) ==
    IF q = 0 THEN [n |-> Sign(p), d |-> 0]
    ELSE LET g == GCD(Abs(p), Abs(q))
             s == IF q < 0 THEN -1 ELSE 1
         IN  [n |-> (s * p) \div g, d |-> (s * q) \div g]

QI(i) == [n |-> i, d |-> 1]

NaN == [n |-> 0, d |-> 0]

Inf == [n |-> 1, d |-> 0]

IsNaN(x) == x.d = 0 /\ x.n = 0

IsInf(x) == x.d = 0 /\ x.n # 0

IsFinite(x) == x.d # 0

QNeg(a) == [n |-> -a.n, d |-> a.d]

QAdd(a, b) ==
    IF a.d # 0 /\ b.d # 0 THEN Q(a.n * b.d + b.n * a.d, a.d * b.d)
    ELSE IF IsNaN(a) \/ IsNaN(b) THEN NaN
    ELSE IF a.d = 0 /\ b.d = 0 THEN (IF a.n = b.n THEN a ELSE NaN)
    ELSE IF a.d = 0 THEN a ELSE b

QSub(a, b) == QAdd(a, QNeg(b))

QMul(a, b) == Q(a.n * b.n, a.d * b.d)

\* a / b: x/0 is +-inf, 0/0 and inf/inf are NaN, x/inf is 0
QDiv(a, b) ==
    LET s == IF b.n < 0 THEN -1 ELSE 1
    IN  Q(s * a.n * b.d, a.d * Abs(b.n))

QLess(a, b) == a.d # 0 /\ b.d # 0 /\ a.n * b.d < b.n * a.d

\* the exact square root of a rational that is a perfect square
ISqrt(k) == CHOOSE s \in 0..k : s * s = k

QSqrt(a) ==
    IF a.d = 0 THEN (IF a.n = 1 THEN Inf ELSE NaN)
    ELSE IF a.n < 0 THEN NaN
    ELSE [n |-> ISqrt(a.n), d |-> ISqrt(a.d)]

RECURSIVE QSum(_)
QSum(s) == IF s = <<>> THEN QI(0) ELSE QAdd(Head(s), QSum(Tail(s)))

RECURSIVE ISum(_)
ISum(s) == IF s = <<>> THEN 0 ELSE Head(s) + ISum(Tail(s))

Range(s) == {s[i] : i \in DOMAIN s}


Max(a, b) == IF a > b THEN a ELSE b

(***************************************************************************)
(* numpy arrays: [shape |-> <<d1, ..., dr>>, at |-> [index tuple |-> v]]   *)
(* with numpy's broadcasting rule for elementwise operations.              *)
(***************************************************************************)
RECURSIVE SeqMax(_)
SeqMax(s) == IF s = <<>> THEN 0 ELSE Max(Head(s), SeqMax(Tail(s)))

IndexSet(shape) ==
    {idx \in [1..Len(shape) -> 1..SeqMax(shape)] :
        \A k \in 1..Len(shape) : idx[k] <= shape[k]}

\* np.asarray of a Python sequence
Arr1(s) == [shape |-> <<Len(s)>>, at |-> [idx \in IndexSet(<<Len(s)>>) |-> s[idx[1]]]]

\* a 1-D array back as a sequence
Seq1(A) == [k \in 1..A.shape[1] |-> A.at[<<k>>]]

\* x[:, np.newaxis] of a 1-D array: shape (N, 1)
NewaxisLast(A) ==
    [shape |-> <<A.shape[1], 1>>,
     at |-> [idx \in IndexSet(<<A.shape[1], 1>>) |-> A.at[<<idx[1]>>]]]

\* x[np.newaxis, :] of a 1-D array: shape (1, N)
NewaxisFirst(A) ==
    [shape |-> <<1, A.shape[1]>>,
     at |-> [idx \in IndexSet(<<1, A.shape[1]>>) |-> A.at[<<idx[2]>>]]]

\* x[:, ...] and x[..., :]: a full slice along one axis and an Ellipsis for
\* the remaining (here: no) axes; a view of the same shape
SliceEllipsis(A) == A

PadShape(s, r) ==
    [k \in 1..r |-> IF k <= r - Len(s) THEN 1 ELSE s[k - (r - Len(s))]]

BroadcastOK(s1, s2) ==
    LET r == Max(Len(s1), Len(s2))
        p1 == PadShape(s1, r)
        p2 == PadShape(s2, r)
    IN  \A k \in 1..r : p1[k] = p2[k] \/ p1[k] = 1 \/ p2[k] = 1

BroadcastShape(s1, s2) ==
    LET r == Max(Len(s1), Len(s2))
        p1 == PadShape(s1, r)
        p2 == PadShape(s2, r)
    IN  [k \in 1..r |-> IF p1[k] = 1 THEN p2[k] ELSE p1[k]]

\* the index of the operand of shape s that result index idx reads
Proj(idx, s) ==
    [k \in 1..Len(s) |-> IF s[k] = 1 THEN 1 ELSE idx[k + (Len(idx) - Len(s))]]

\* A op B, elementwise with broadcasting (the shapes are compatible)
Elementwise(Op(_, _), A, B) ==
    LET sh == BroadcastShape(A.shape, B.shape)
    IN  [shape |-> sh,
         at |-> [idx \in IndexSet(sh) |->
                    Op(A.at[Proj(idx, A.shape)], B.at[Proj(idx, B.shape)])]]


(***************************************************************************)
(* Particles.  A charge state is [element, Z]; its ionic symbol ("H 1+")   *)
(* is the pair <<element, Z>>.  Masses are in proton masses (the electron  *)
(* mass is neglected), temperatures are given in eV, densities and         *)
(* gradients are small integers.                                           *)
(***************************************************************************)
MaxStates == 3

KelvinPerEV == 11605

Elements == {"H", "He"}

\* the order of the element symbols as numpy compares strings
ElementRank(e) == IF e = "H" THEN 1 ELSE 2

MaxCharge(e) == IF e = "H" THEN 1 ELSE 2

Universe ==
    {[element |-> "H", Z |-> 0], [element |-> "H", Z |-> 1],
     [element |-> "He", Z |-> 1], [element |-> "He", Z |-> 2]}

ParticleMass(p) == IF p.element = "H" THEN 1 ELSE 4

ionic_symbol(p) == <<p.element, p.Z>>

Densities == {0, 1}

TemperaturesEV == {1, 4}

\* arr[indices] (numpy integer-array indexing; positions count from 1 here)
Take(arr, indices) == [k \in 1..Len(indices) |-> arr[indices[k]]]

TakeOK(arr, indices) == \A k \in 1..Len(indices) : indices[k] \in 1..Len(arr)

PermsOf(N) == {p \in [1..N -> 1..N] : \A i, j \in 1..N : p[i] = p[j] => i = j}

\* ParticleList.basic_elements
basic_elements(data) == [k \in 1..Len(data) |-> data[k].element]

\* np.argsort(keys) with the default kind ("quicksort", which makes no
\* promise about the order of equal keys): every permutation that sorts
ArgsortResults(keys) ==
    {p \in PermsOf(Len(keys)) :
        \A k \in 1..(Len(keys) - 1) :
            ElementRank(keys[p[k]]) <= ElementRank(keys[p[k + 1]])}

\* the argsort result that keeps equal keys in input order
StableArgsort(keys) ==
    CHOOSE p \in ArgsortResults(keys) :
        \A k \in 1..(Len(keys) - 1) :
            keys[p[k]] = keys[p[k + 1]] => p[k] < p[k + 1]

\* (np.diff(indices) > 0).all()
IsSortedIndices(indices) ==
    \A k \in 1..(Len(indices) - 1) : indices[k + 1] - indices[k] > 0

Raised(e) == [kind |-> "raised", error |-> e]

\* u.Quantity(T).to(u.K, equivalencies=u.temperature_energy()) and the
\* broadcast of a size-1 T to n.shape
EPL_T(T, n) ==
    LET TK == [k \in 1..Len(T) |-> T[k] * KelvinPerEV]
    IN  IF Len(TK) = 1 THEN [k \in 1..Len(n) |-> TK[1]] ELSE TK

\* self.dT = u.Quantity(dT[indices]); self.dn = u.Quantity(dn[indices])
EPL_gradient_unpermuted(g, indices) == g

EPL_gradient(g, indices) == Take(g, indices)

\* ExtendedParticleList.__init__ with `indices` the value np.argsort returned
EPL_init_result(a, indices) ==
    LET T0 == EPL_T(a.T, a.n)
        sorted == IsSortedIndices(indices)
    IN  IF Len(a.n) # Len(a.particles) THEN Raised("AssertionError")
        ELSE IF ~sorted /\ ~TakeOK(T0, indices) THEN Raised("IndexError")
        ELSE IF a.has_dT /\ ~TakeOK(a.dT, indices) THEN Raised("IndexError")
        ELSE IF a.has_dT /\ Len(indices) # (IF sorted THEN Len(T0) ELSE Len(indices))
             THEN Raised("AssertionError")
        ELSE IF a.has_dn /\ ~TakeOK(a.dn, indices) THEN Raised("IndexError")
        ELSE [kind |-> "object",
              data |-> IF sorted THEN a.particles ELSE Take(a.particles, indices),
              n |-> IF sorted THEN a.n ELSE Take(a.n, indices),
              T |-> IF sorted THEN T0 ELSE Take(T0, indices),
              has_dT |-> a.has_dT,
              has_dn |-> a.has_dn,
              dT |-> IF a.has_dT THEN EPL_gradient(a.dT, indices) ELSE <<>>,
              dn |-> IF a.has_dn THEN EPL_gradient(a.dn, indices) ELSE <<>>,
              indices |-> indices]


(***************************************************************************)
(* Properties of a constructed ExtendedParticleList `o`.                   *)
(***************************************************************************)
EPL_len(o) == Len(o.data)

charge_number(o) == [k \in 1..EPL_len(o) |-> o.data[k].Z]

mass(o) == [k \in 1..EPL_len(o) |-> QI(ParticleMass(o.data[k]))]

\* self.n * self.mass
mass_density(o) == [k \in 1..EPL_len(o) |-> QMul(QI(o.n[k]), mass(o)[k])]

\* plasmapy.formulary.thermal_speed(T, p) = sqrt(2 k_B T / m), in units of
\* sqrt(2 eV / m_p)
thermal_speed(o) ==
    [k \in 1..Len(o.T) |-> QSqrt(Q(o.T[k], KelvinPerEV * ParticleMass(o.data[k])))]

\* sorted distinct values of a sequence of element symbols
RECURSIVE SortedElements(_)
SortedElements(S) ==
    IF S = {} THEN <<>>
    ELSE LET m == CHOOSE e \in S : \A f \in S : ElementRank(e) <= ElementRank(f)
         IN  <<m>> \o SortedElements(S \ {m})

\* np.unique(keys, return_index=True)[1]: for each distinct key, in sorted
\* order, the (0-based) position of its first occurrence
unique_return_index(keys) ==
    LET u == SortedElements(Range(keys))
    IN  [j \in 1..Len(u) |->
            (CHOOSE k \in 1..Len(keys) :
                keys[k] = u[j] /\ \A l \in 1..(k - 1) : keys[l] # u[j]) - 1]

\* ary[st:end] with 0-based Python slice bounds
PySlice(ary, st, end) ==
    IF st >= end THEN <<>> ELSE [k \in 1..(end - st) |-> ary[st + k]]

\* np.split(ary, indices): ary[:i1], ary[i1:i2], ..., ary[ik:]
np_split(ary, indices) ==
    LET div == <<0>> \o indices \o <<Len(ary)>>
    IN  [j \in 1..(Len(indices) + 1) |-> PySlice(ary, div[j], div[j + 1])]

RECURSIVE Concatenate(_)
Concatenate(ss) == IF ss = <<>> THEN <<>> ELSE Head(ss) \o Concatenate(Tail(ss))

\* the split points used by xi
xi_split_indices_none(o) == <<>>

xi_split_indices(o) == unique_return_index(basic_elements(o.data))

\* ExtendedParticleList.xi (the charge weighting factor)
xi(o) ==
    LET input_indices == xi_split_indices(o)
        charge_numbers == np_split(charge_number(o), input_indices)
        ns == np_split(o.n, input_indices)
        outputs ==
            [j \in 1..Len(ns) |->
                LET array == [k \in 1..Len(ns[j]) |->
                                 QI(charge_numbers[j][k] * charge_numbers[j][k] * ns[j][k])]
                    total == QSum(array)
                IN  [k \in 1..Len(array) |-> QDiv(array[k], total)]]
    IN  Concatenate(outputs)

\* self.thermal_speed[:, np.newaxis] / self.thermal_speed[np.newaxis, :]
xab_ratio(o) ==
    Elementwise(QDiv, NewaxisLast(Arr1(thermal_speed(o))),
                      NewaxisFirst(Arr1(thermal_speed(o))))

\* self.mass[:, ...] / self.mass[..., :]
mass_ratio(o) ==
    Elementwise(QDiv, SliceEllipsis(Arr1(mass(o))), SliceEllipsis(Arr1(mass(o))))

\* self.T[:, ...] / self.T[..., :]
temperature_ratio(o) ==
    LET T == Arr1([k \in 1..Len(o.T) |-> QI(o.T[k])])
    IN  Elementwise(QDiv, SliceEllipsis(T), SliceEllipsis(T))

(***************************************************************************)
(* The ExtendedParticleList state machine: the call of the constructor     *)
(* and the reads of the derived properties of the constructed object.      *)
(***************************************************************************)
NoCall == [fn |-> "none"]

NotBuilt == [kind |-> "none"]

\* the T argument: one value for all charge states, or one per charge state
ScalarT == <<4>>

ArrayT(N) == [k \in 1..N |-> IF k % 2 = 1 THEN 1 ELSE 4]

\* gradients that tell the input positions apart
TaggedGradient(N, base) == [k \in 1..N |-> base + k]

\* the calls: any particles and densities, either with a single T and no
\* gradients or with per-state T and gradients
EPLArgs ==
    UNION {
        {[particles |-> ps, n |-> n,
          T |-> IF g THEN ArrayT(N) ELSE ScalarT,
          has_dT |-> g, has_dn |-> g,
          dT |-> IF g THEN TaggedGradient(N, 0) ELSE <<>>,
          dn |-> IF g THEN TaggedGradient(N, 10) ELSE <<>>] :
            ps \in [1..N -> Universe], n \in [1..N -> Densities], g \in BOOLEAN}
        : N \in 1..MaxStates}

\* a call whose density array is one entry short
EPLShortArgs ==
    {[a EXCEPT !.n = Tail(a.n)] : a \in {b \in EPLArgs : Len(b.particles) = 2 /\ ~b.has_dT}}

\* the parts of the state a specification does not use
IdleCoulomb == lnLambda0 = "finite"

IdleFluxSurface == fs_args = <<>> /\ fs = NotBuilt

IdleFlows == all_species = <<>> /\ fc = NotBuilt

IdleTracker == tracker = NotBuilt

IdleFactory == factory = NotBuilt

InitEPL ==
    /\ args \in EPLArgs \cup EPLShortArgs
    /\ epl = NotBuilt
    /\ ret = NoCall
    /\ IdleCoulomb /\ IdleFluxSurface /\ IdleFlows /\ IdleTracker /\ IdleFactory

EPL_init ==
    /\ epl.kind = "none"
    /\ \E indices \in ArgsortResults(basic_elements(args.particles)) :
           epl' = EPL_init_result(args, indices)
    /\ UNCHANGED <<args, ret, lnLambda0, fs_args, fs, all_species, fc, tracker, factory>>

Get_xi ==
    /\ epl.kind = "object"
    /\ ret' = [fn |-> "xi", value |-> xi(epl)]
    /\ UNCHANGED <<args, epl, lnLambda0, fs_args, fs, all_species, fc, tracker, factory>>

NextEPL ==
    \/ EPL_init
    \/ Get_xi

SpecEPL == InitEPL /\ [][NextEPL]_vars

(***************************************************************************)
(* The pairwise ratio properties, read on lists of unit density (the       *)
(* ratios do not read the densities).                                      *)
(***************************************************************************)
InitRatios ==
    /\ args \in {a \in EPLArgs : \A k \in 1..Len(a.n) : a.n[k] = 1}
    /\ epl = NotBuilt
    /\ ret = NoCall
    /\ IdleCoulomb /\ IdleFluxSurface /\ IdleFlows /\ IdleTracker /\ IdleFactory

Get_xab_ratio ==
    /\ epl.kind = "object"
    /\ ret' = [fn |-> "xab_ratio", value |-> xab_ratio(epl)]
    /\ UNCHANGED <<args, epl, lnLambda0, fs_args, fs, all_species, fc, tracker, factory>>

Get_mass_ratio ==
    /\ epl.kind = "object"
    /\ ret' = [fn |-> "mass_ratio", value |-> mass_ratio(epl)]
    /\ UNCHANGED <<args, epl, lnLambda0, fs_args, fs, all_species, fc, tracker, factory>>

Get_temperature_ratio ==
    /\ epl.kind = "object"
    /\ ret' = [fn |-> "temperature_ratio", value |-> temperature_ratio(epl)]
    /\ UNCHANGED <<args, epl, lnLambda0, fs_args, fs, all_species, fc, tracker, factory>>

NextRatios ==
    \/ EPL_init
    \/ Get_xab_ratio
    \/ Get_mass_ratio
    \/ Get_temperature_ratio

SpecRatios == InitRatios /\ [][NextRatios]_vars

(***************************************************************************)
(* Claims about ExtendedParticleList (checked under SpecEPL).              *)
(***************************************************************************)
Positions(o) == 1..EPL_len(o)

\* Z_i^2 n_i
Weight(o, i) == o.data[i].Z * o.data[i].Z * o.n[i]

\* the sum of Z_j^2 n_j over the charge states j of the element of state i
ElementWeight(o, i) ==
    ISum([j \in 1..EPL_len(o) |->
            IF o.data[j].element = o.data[i].element THEN Weight(o, j) ELSE 0])

ElementXiSum(o, v, i) ==
    QSum([j \in 1..EPL_len(o) |->
            IF o.data[j].element = o.data[i].element THEN v[j] ELSE QI(0)])

\* C3: xi has one entry per charge state, in list order; for a charge state
\* i of an element with a non-zero sum of Z^2 n, xi[i] is Z_i^2 n_i divided
\* by the sum of Z_j^2 n_j over the charge states j of the same element
\* only, and the xi of that element sum to 1 (for the first element group
\* and for the later ones alike).
C3_XiPerElement ==
    ret.fn = "xi" =>
        /\ Len(ret.value) = EPL_len(epl)
        /\ \A i \in Positions(epl) :
              ElementWeight(epl, i) # 0 =>
                  /\ ret.value[i] = Q(Weight(epl, i), ElementWeight(epl, i))
                  /\ ElementXiSum(epl, ret.value, i) = QI(1)

\* xi was read for a list with two elements that both carry weight, one of
\* them split over several charge states
C3_Witness ==
    /\ ret.fn = "xi"
    /\ \E i, j \in Positions(epl) :
          /\ epl.data[i].element # epl.data[j].element
          /\ ElementWeight(epl, i) # 0
          /\ ElementWeight(epl, j) # 0
          /\ QLess(QI(0), ret.value[i])
          /\ QLess(ret.value[i], QI(1))

\* the T argument seen per charge state (a single T stands for all)
InputT(a, k) == IF Len(a.T) = 1 THEN a.T[1] ELSE a.T[k]

\* C4: after construction, re-sorted or not, particle, n, T, dT and dn at
\* each position come from one and the same input position: one permutation
\* of the input positions carries all five arrays.
C4_SamePermutation ==
    epl.kind = "object" =>
        \E p \in PermsOf(Len(args.particles)) :
            \A k \in Positions(epl) :
                /\ epl.data[k] = args.particles[p[k]]
                /\ epl.n[k] = args.n[p[k]]
                /\ epl.T[k] = KelvinPerEV * InputT(args, p[k])
                /\ epl.has_dT => epl.dT[k] = args.dT[p[k]]
                /\ epl.has_dn => epl.dn[k] = args.dn[p[k]]

\* a list with gradients and per-state temperatures that was re-sorted
C4_Witness ==
    /\ epl.kind = "object"
    /\ epl.indices = StableArgsort(basic_elements(args.particles))
    /\ ~IsSortedIndices(epl.indices)
    /\ epl.has_dT /\ epl.has_dn
    /\ Len(args.T) > 1
    /\ epl.data # args.particles

\* the charge states of each element are adjacent in the sequence ps
Grouped(ps) ==
    \A i, j, k \in 1..Len(ps) :
        (i < j /\ j < k /\ ps[i].element = ps[k].element)
            => ps[j].element = ps[i].element

\* C5: the element-grouping sort is stable: the charge states of each
\* element end up contiguous and in their input order, and an input that is
\* already grouped by element is left in the caller's order.  (Stated for
\* the constructions in which argsort kept equal keys in input order.)
C5_StableGrouping ==
    (/\ epl.kind = "object"
     /\ epl.indices = StableArgsort(basic_elements(args.particles)))
    => /\ Grouped(epl.data)
       /\ \A i, j \in Positions(epl) :
             (i < j /\ epl.data[i].element = epl.data[j].element)
                 => epl.indices[i] < epl.indices[j]
       /\ Grouped(args.particles) => epl.data = args.particles

\* C6: xab_ratio, mass_ratio and temperature_ratio are N x N arrays with
\* entry [a, b] = thermal_speed[a] / thermal_speed[b], mass[a] / mass[b]
\* and T[a] / T[b].  (Stated for lists of at least two charge states.)
IsPairwiseRatio(A, v) ==
    /\ A.shape = <<Len(v), Len(v)>>
    /\ \A a, b \in 1..Len(v) : A.at[<<a, b>>] = QDiv(v[a], v[b])

C6_PairwiseRatios ==
    (ret.fn # "none" /\ EPL_len(epl) >= 2) =>
        /\ ret.fn = "xab_ratio" => IsPairwiseRatio(ret.value, thermal_speed(epl))
        /\ ret.fn = "mass_ratio" => IsPairwiseRatio(ret.value, mass(epl))
        /\ ret.fn = "temperature_ratio" =>
              IsPairwiseRatio(ret.value, [k \in 1..Len(epl.T) |-> QI(epl.T[k])])

\* the part of C6 that the code meets: xab_ratio
C6_XabRatioOnly ==
    ret.fn = "xab_ratio" => IsPairwiseRatio(ret.value, thermal_speed(epl))


(***************************************************************************)
(* Viscosity coefficients (Houlberg1997.py, lines 185-461).                *)
(*                                                                         *)
(* erf, Chandrasekhar_G and the Coulomb logarithm are not rational         *)
(* functions; what the code does to finiteness is modelled instead.  A     *)
(* value is of class "zero" (exactly 0, from a zero density or charge),    *)
(* "finite" (finite, not structurally 0), "inf" or "nan".  The velocity    *)
(* grid x is positive and finite, so (erf - G)/x^3 and the like are        *)
(* "finite".                                                               *)
(***************************************************************************)
Cls(q) ==
    IF IsNaN(q) THEN "nan" ELSE IF IsInf(q) THEN "inf"
    ELSE IF q.n = 0 THEN "zero" ELSE "finite"

CMul(a, b) ==
    IF a = "nan" \/ b = "nan" THEN "nan"
    ELSE IF {a, b} = {"zero", "inf"} THEN "nan"
    ELSE IF a = "zero" \/ b = "zero" THEN "zero"
    ELSE IF a = "inf" \/ b = "inf" THEN "inf"
    ELSE "finite"

CDiv(a, b) ==
    IF a = "nan" \/ b = "nan" THEN "nan"
    ELSE IF (a = "zero" /\ b = "zero") \/ (a = "inf" /\ b = "inf") THEN "nan"
    ELSE IF b = "zero" THEN "inf"
    ELSE IF b = "inf" \/ a = "zero" THEN "zero"
    ELSE a

\* the sum of two values of one sign
CAdd(a, b) ==
    IF a = "nan" \/ b = "nan" THEN "nan"
    ELSE IF a = "inf" \/ b = "inf" THEN "inf"
    ELSE IF a = "zero" THEN b
    ELSE a

RECURSIVE CSum(_)
CSum(s) == IF s = <<>> THEN "zero" ELSE CAdd(Head(s), CSum(Tail(s)))

IsFiniteClass(c) == c \in {"zero", "finite"}

CoulombClasses == {"finite", "inf", "nan"}

\* Coulomb_logarithm(bT, bn, (ai, bj)): positive and finite for two ions of
\* positive density; for a field species of zero density (infinite Debye
\* length) or a neutral partner it yields lnLambda0
Coulomb_logarithm(o, i, j, l0) ==
    IF o.n[j] = 0 \/ o.data[i].Z = 0 \/ o.data[j].Z = 0 THEN l0 ELSE "finite"

\* collision_frequency[i, j], up to the factor 1 / (3 pi^(3/2) eps0^2):
\* (q_i q_j / m_i)^2 * n_i n_j * m_i / thermal_speed[j]^3
collision_frequency(o, i, j) ==
    LET qq == Q(o.data[i].Z * o.data[j].Z, ParticleMass(o.data[i]))
        v == thermal_speed(o)[j]
    IN  QDiv(QMul(QMul(QMul(qq, qq), QI(o.n[i] * o.n[j])), mass(o)[i]),
             QMul(v, QMul(v, v)))

\* effective_momentum_relaxation_rate:
\* (CL_matrix * collision_frequency).sum(axis=-1), one value per charge state
effective_momentum_relaxation_rate(o, l0) ==
    [i \in 1..EPL_len(o) |->
        CSum([j \in 1..EPL_len(o) |->
                CMul(Coulomb_logarithm(o, i, j, l0), Cls(collision_frequency(o, i, j)))])]

\* arr.sum(axis=-1): the last axis is summed away
SumLastAxisShape(shape) == SubSeq(shape, 1, Len(shape) - 1)

\* the shape of effective_momentum_relaxation_rate: CL_matrix and
\* collision_frequency are (N, N), their product is summed over the last axis
effective_momentum_relaxation_rate_shape(o) ==
    LET N == EPL_len(o)
    IN  SumLastAxisShape(BroadcastShape(<<N, N>>, <<N, N>>))

\* xi / self.mass_density, the prefactor of pitch_angle_diffusion_rate and
\* nu_T_ai
xi_over_mass_density(o) ==
    [a \in 1..EPL_len(o) |-> Cls(QDiv(xi(o)[a], mass_density(o)[a]))]

\* np.sum(fraction * self.effective_momentum_relaxation_rate, axis=-1): the
\* rate vector multiplies along the last (field species) axis
sum_items(o, l0) ==
    LET rate == effective_momentum_relaxation_rate(o, l0)
    IN  [a \in 1..EPL_len(o) |->
            CSum([b \in 1..EPL_len(o) |-> CMul("finite", rate[b])])]

\* pitch_angle_diffusion_rate(x): per charge state (for every x of the grid)
pitch_angle_diffusion_rate(o, l0) ==
    [a \in 1..EPL_len(o) |->
        CMul(xi_over_mass_density(o)[a], CMul("finite", sum_items(o, l0)[a]))]

Value(v) == [kind |-> "value", v |-> v]

\* K_B_ai(x, trapped_fraction, orbit_squeezing=...), 0 < trapped_fraction < 1
K_B_ai(o, l0, orbit_squeezing) ==
    IF orbit_squeezing THEN Raised("NotImplementedError")
    ELSE Value([a \in 1..EPL_len(o) |->
                   CDiv(CMul(pitch_angle_diffusion_rate(o, l0)[a], "finite"), "finite")])

\* nu_T_ai(x): prefactor * ((part1 + part2full) * rate).sum(axis=-1)
nu_T_ai(o, l0) ==
    [a \in 1..EPL_len(o) |->
        CMul(CMul("finite", xi_over_mass_density(o)[a]), sum_items(o, l0)[a])]

\* the attributes of a FluxSurface object
FluxSurface_attributes ==
    {"R", "Z", "psi", "Brvals", "Bzvals", "Bphivals", "Bprimervals", "Bprimezvals",
     "Bvectors", "dZ", "dR", "dL", "n", "nr", "nz", "lp", "Lp", "Bp", "B2", "Bmag",
     "Bmax", "Bmin", "gamma", "Theta", "Bt", "plot", "plot_psi",
     "flux_surface_average", "theta", "_h", "_hmean", "_h2mean", "_f_tu", "_f_tl",
     "trapped_fraction"}

\* the attributes of its argument fs that F_m reads, in order
F_m_reads ==
    <<"Brvals", "Bprimervals", "Bzvals", "Bprimezvals", "Theta", "Bmag",
      "flux_surface_average", "gamma", "B2", "BDotNablaThetaFSA">>

\* F_m(m, fs) for a FluxSurface fs
F_m ==
    IF \E k \in 1..Len(F_m_reads) : F_m_reads[k] \notin FluxSurface_attributes
    THEN Raised("AttributeError")
    ELSE Value("finite")

\* K_ps_ai(x, flux_surface): nu_T_ai, then the mode weights F_m, then the
\* mode sum of F * B10(nu / omega) / nu
K_ps_ai(o, l0) ==
    LET nu == nu_T_ai(o, l0)
        F == F_m
    IN  IF F.kind = "raised" THEN F
        ELSE Value([a \in 1..EPL_len(o) |->
                      CMul("finite", CDiv(CMul(F.v, nu[a]), nu[a]))])

\* the names bound at module level in Houlberg1997.py (imports, the class,
\* the module-level functions); the methods of ExtendedParticleList are
\* attributes of the class and are not among them
Houlberg1997_globals ==
    {"np", "constants", "u", "erf", "Union", "List", "Iterable", "cached_property",
     "warnings", "thermal_speed", "Coulomb_logarithm", "Chandrasekhar_G",
     "IonizationState", "IonizationStateCollection", "FluxSurface", "trapezoid",
     "ParticleList", "validate_quantities", "LaguerrePolynomials",
     "ExtendedParticleList", "_B17", "F_m", "omega_m"}

ExtendedParticleList_methods ==
    {"basic_elements", "mass_density", "thermal_speed", "xi", "xab_ratio",
     "mass_ratio", "temperature_ratio", "M_matrix", "N_matrix",
     "effective_momentum_relaxation_rate", "N_script", "M_script", "x_over_xab",
     "pitch_angle_diffusion_rate", "K_B_ai", "nu_T_ai", "K_ps_ai", "K", "mu_hat",
     "contributing_states"}

\* a bare name in a function body resolves in the module's globals
Resolves(name) == name \in Houlberg1997_globals

\* K(x, a, all_species, flux_surface, orbit_squeezing=...):
\*   kb = K_B_ai(...); kps = K_ps_ai(...); return 1 / (1 / kb + 1 / kps)
K(o, l0, orbit_squeezing) ==
    IF ~Resolves("K_B_ai") THEN Raised("NameError")
    ELSE LET kb == K_B_ai(o, l0, orbit_squeezing)
         IN  IF kb.kind = "raised" THEN kb
             ELSE IF ~Resolves("K_ps_ai") THEN Raised("NameError")
             ELSE LET kps == K_ps_ai(o, l0)
                  IN  IF kps.kind = "raised" THEN kps
                      ELSE Value([a \in 1..EPL_len(o) |->
                                    CDiv("finite", CAdd(CDiv("finite", kb.v[a]),
                                                        CDiv("finite", kps.v[a])))])

orders == 1..3

\* signs = (-1) * (alpha[:, None] + beta[None, :])
mu_hat_signs == [al \in orders |-> [be \in orders |-> (-1) * (al + be)]]

\* mu_hat(a, all_species, flux_surface, **kwargs): the signs, then
\* kterm = K(x, a, all_species, flux_surface, **kwargs), then the quadrature
\* times signs times (8 / 3 / sqrt(pi)) * mass_density
mu_hat(o, l0, orbit_squeezing) ==
    IF ~Resolves("K") THEN Raised("NameError")
    ELSE LET kterm == K(o, l0, orbit_squeezing)
         IN  IF kterm.kind = "raised" THEN kterm
             ELSE Value([a \in 1..EPL_len(o) |->
                           CMul(CMul("finite", kterm.v[a]), Cls(mass_density(o)[a]))])

\* the entry [i, j] of the 3 x 3 matrix that M_matrix / N_matrix compute from
\* xab_ratio[a, b]: np.array([[M11, M12, M13], ...]) of (N, N) arrays
MatrixEntry(name, idx) ==
    [name |-> name, i |-> idx[1], j |-> idx[2], a |-> idx[3], b |-> idx[4]]

\* every Mij / Nij is an expression of xab and mass_ratio (temperature_ratio)
matrix_shape(o) ==
    <<3, 3>> \o BroadcastShape(mass_ratio(o).shape, xab_ratio(o).shape)

M_matrix(o) ==
    [shape |-> matrix_shape(o),
     at |-> [idx \in IndexSet(matrix_shape(o)) |-> MatrixEntry("M", idx)]]

N_matrix(o) ==
    [shape |-> matrix_shape(o),
     at |-> [idx \in IndexSet(matrix_shape(o)) |-> MatrixEntry("N", idx)]]

\* effective_momentum_relaxation_rate as the terms it adds up: entry i is the
\* sum over the last axis of CL_matrix[i, j] * collision_frequency[i, j]
rate_terms(o) ==
    Arr1([i \in 1..EPL_len(o) |-> {<<i, j>> : j \in 1..EPL_len(o)}])

\* rate * entry: the entry scaled by the sum of the rates of the pairs `terms`
Scaled(terms, entry) == [entry |-> entry, terms |-> terms]

\* self.effective_momentum_relaxation_rate * N
N_script(o) == Elementwise(Scaled, rate_terms(o), N_matrix(o))

\* arr.sum(axis=-1): every entry is the set of its summands
SumLastAxis(A) ==
    LET sh == SumLastAxisShape(A.shape)
    IN  [shape |-> sh,
         at |-> [idx \in IndexSet(sh) |->
                    {A.at[idx \o <<b>>] : b \in 1..A.shape[Len(A.shape)]}]]

\* (self.M_matrix * self.effective_momentum_relaxation_rate).sum(axis=-1)
M_script(o) ==
    LET Times(m, r) == Scaled(r, m)
        integrand == Elementwise(Times, M_matrix(o), rate_terms(o))
    IN  SumLastAxis(integrand)

(***************************************************************************)
(* The viscosity calls on a constructed list.                              *)
(***************************************************************************)
InitVisc ==
    /\ args \in {a \in EPLArgs : ~a.has_dT}
    /\ epl = NotBuilt
    /\ ret = NoCall
    /\ lnLambda0 \in CoulombClasses
    /\ IdleFluxSurface /\ IdleFlows /\ IdleTracker /\ IdleFactory

idle_visc == <<args, epl, lnLambda0, fs_args, fs, all_species, fc, tracker, factory>>

Get_effective_momentum_relaxation_rate ==
    /\ epl.kind = "object"
    /\ ret' = [fn |-> "effective_momentum_relaxation_rate",
               orbit_squeezing |-> FALSE,
               shape |-> effective_momentum_relaxation_rate_shape(epl),
               outcome |-> Value(effective_momentum_relaxation_rate(epl, lnLambda0))]
    /\ UNCHANGED idle_visc

Call_pitch_angle_diffusion_rate ==
    /\ epl.kind = "object"
    /\ ret' = [fn |-> "pitch_angle_diffusion_rate", orbit_squeezing |-> FALSE,
               outcome |-> Value(pitch_angle_diffusion_rate(epl, lnLambda0))]
    /\ UNCHANGED idle_visc

Call_K_B_ai ==
    /\ epl.kind = "object"
    /\ \E orbit_squeezing \in BOOLEAN :
           ret' = [fn |-> "K_B_ai", orbit_squeezing |-> orbit_squeezing,
                   outcome |-> K_B_ai(epl, lnLambda0, orbit_squeezing)]
    /\ UNCHANGED idle_visc

Call_K_ps_ai ==
    /\ epl.kind = "object"
    /\ ret' = [fn |-> "K_ps_ai", orbit_squeezing |-> FALSE,
               outcome |-> K_ps_ai(epl, lnLambda0)]
    /\ UNCHANGED idle_visc

Call_K ==
    /\ epl.kind = "object"
    /\ \E orbit_squeezing \in BOOLEAN :
           ret' = [fn |-> "K", orbit_squeezing |-> orbit_squeezing,
                   outcome |-> K(epl, lnLambda0, orbit_squeezing)]
    /\ UNCHANGED idle_visc

Call_mu_hat ==
    /\ epl.kind = "object"
    /\ \E orbit_squeezing \in BOOLEAN :
           ret' = [fn |-> "mu_hat", orbit_squeezing |-> orbit_squeezing,
                   signs |-> mu_hat_signs,
                   outcome |-> mu_hat(epl, lnLambda0, orbit_squeezing)]
    /\ UNCHANGED idle_visc

Get_N_script ==
    /\ epl.kind = "object"
    /\ ret' = [fn |-> "N_script", orbit_squeezing |-> FALSE,
               outcome |-> Value(N_script(epl))]
    /\ UNCHANGED idle_visc

Get_M_script ==
    /\ epl.kind = "object"
    /\ ret' = [fn |-> "M_script", orbit_squeezing |-> FALSE,
               outcome |-> Value(M_script(epl))]
    /\ UNCHANGED idle_visc

NextVisc ==
    \/ EPL_init
    \/ Get_effective_momentum_relaxation_rate
    \/ Get_N_script
    \/ Get_M_script
    \/ Call_pitch_angle_diffusion_rate
    \/ Call_K_B_ai
    \/ Call_K_ps_ai
    \/ Call_K
    \/ Call_mu_hat

SpecVisc == InitVisc /\ [][NextVisc]_vars


(***************************************************************************)
(* Claims about the viscosity coefficients                                 *)
(***************************************************************************)
ViscosityFunctions == {"pitch_angle_diffusion_rate", "K_B_ai", "K_ps_ai", "mu_hat"}

HasZeroDensityState(o) == \E k \in Positions(o) : o.n[k] = 0

\* every element of the list has a charge state with Z^2 n > 0
EveryElementPresent(o) == \A k \in Positions(o) : ElementWeight(o, k) > 0

IsNotImplemented(outcome) ==
    outcome.kind = "raised" /\ outcome.error = "NotImplementedError"

\* C2: on a list with a zero-density charge state (every element still
\* having ions of positive density, the Coulomb logarithm finite for every
\* pair), pitch_angle_diffusion_rate, K_B_ai, K_ps_ai and mu_hat, called
\* without orbit squeezing, return a value that is finite for every charge
\* state, the zero-density one included.
C2_ZeroDensityFinite ==
    ( /\ epl.kind = "object"
      /\ ret.fn \in ViscosityFunctions
      /\ ~ret.orbit_squeezing
      /\ lnLambda0 = "finite"
      /\ HasZeroDensityState(epl)
      /\ EveryElementPresent(epl) )
    => /\ ret.outcome.kind = "value"
       /\ \A a \in Positions(epl) : IsFiniteClass(ret.outcome.v[a])

\* C7: the factor mu_hat applies to the quadrature for the orders alpha, beta
\* is (-1)^(alpha + beta): +1 for an even sum, -1 for an odd one.
C7_AlternatingSign ==
    ret.fn = "mu_hat" =>
        \A al \in orders : \A be \in orders :
            ret.signs[al][be] = IF (al + be) % 2 = 0 THEN 1 ELSE -1

\* C8: K_B_ai, K and mu_hat end in NotImplementedError when called with
\* orbit_squeezing=True, and do not raise it with orbit_squeezing=False.
C8_OrbitSqueezing ==
    ret.fn \in {"K_B_ai", "K", "mu_hat"} =>
        (ret.orbit_squeezing <=> IsNotImplemented(ret.outcome))


\* a list of ions, every one of positive density
IonsOnly(o) == \A k \in 1..EPL_len(o) : o.data[k].Z > 0 /\ o.n[k] > 0

\* C23: M_script of a test charge state a is the sum over the field charge
\* states b of M_matrix[a, b] scaled by the momentum relaxation rate of the
\* same pair (a, b), one 3 x 3 matrix per a; N_script keeps one 3 x 3 matrix
\* per ordered pair (a, b), N_matrix[a, b] scaled by the rate of that pair.
C23_ScaledBySamePair ==
    (epl.kind = "object" /\ IonsOnly(epl)) =>
        LET N == EPL_len(epl)
        IN  /\ ret.fn = "N_script" =>
                /\ ret.outcome.v.shape = <<3, 3, N, N>>
                /\ \A idx \in IndexSet(<<3, 3, N, N>>) :
                       ret.outcome.v.at[idx] =
                           Scaled({<<idx[3], idx[4]>>}, MatrixEntry("N", idx))
            /\ ret.fn = "M_script" =>
                /\ ret.outcome.v.shape = <<3, 3, N>>
                /\ \A idx \in IndexSet(<<3, 3, N>>) :
                       ret.outcome.v.at[idx] =
                           {Scaled({<<idx[3], b>>}, MatrixEntry("M", idx \o <<b>>)) :
                                b \in 1..N}

(***************************************************************************)
(* FluxSurface (plasma/fluxsurface.py).  The contour samples are integers  *)
(* chosen so that every square root __post_init__ takes is exact; the      *)
(* arrays are sequences of extended rationals.  gamma and Theta are kept   *)
(* as multiples of 2 pi.                                                   *)
(***************************************************************************)
QSeq(s) == [k \in 1..Len(s) |-> QI(s[k])]

\* a op b for two 1-D arrays, with broadcasting of a length-1 operand
Add1(a, b) == Seq1(Elementwise(QAdd, Arr1(a), Arr1(b)))

Mul1(a, b) == Seq1(Elementwise(QMul, Arr1(a), Arr1(b)))

Div1(a, b) == Seq1(Elementwise(QDiv, Arr1(a), Arr1(b)))

Sqrt1(a) == [k \in 1..Len(a) |-> QSqrt(a[k])]

Square1(a) == [k \in 1..Len(a) |-> QMul(a[k], a[k])]

Broadcastable1(a, b) == BroadcastOK(<<Len(a)>>, <<Len(b)>>)

\* np.gradient(f) of a 1-D array with unit spacing and edge_order=1 (at
\* least 2 elements): central differences inside, one-sided at both ends
np_gradient(f) ==
    LET N == Len(f)
    IN  [k \in 1..N |->
            IF k = 1 THEN QSub(f[2], f[1])
            ELSE IF k = N THEN QSub(f[N], f[N - 1])
            ELSE QDiv(QSub(f[k + 1], f[k - 1]), QI(2))]

np_cumsum(s) == [k \in 1..Len(s) |-> QSum(SubSeq(s, 1, k))]

RECURSIVE QMaxOf(_)
QMaxOf(s) ==
    IF Len(s) = 1 THEN s[1]
    ELSE LET m == QMaxOf(Tail(s)) IN IF QLess(m, s[1]) THEN s[1] ELSE m

RECURSIVE QMinOf(_)
QMinOf(s) ==
    IF Len(s) = 1 THEN s[1]
    ELSE LET m == QMinOf(Tail(s)) IN IF QLess(s[1], m) THEN s[1] ELSE m

\* cumulative_trapezoid without initial=0: one value per interval
cumulative_trapezoid_no_initial(y, x) ==
    [k \in 1..(Len(y) - 1) |->
        QSum([i \in 1..k |->
                QDiv(QMul(QSub(x[i + 1], x[i]), QAdd(y[i], y[i + 1])), QI(2))])]

\* scipy.integrate.cumulative_trapezoid(y, x, initial=0), len(x) = len(y)
cumulative_trapezoid(y, x) ==
    [k \in 1..Len(y) |->
        QSum([i \in 1..(k - 1) |->
                QDiv(QMul(QSub(x[i + 1], x[i]), QAdd(y[i], y[i + 1])), QI(2))])]

\* np.true_divide(a, b, out=np.zeros_like(a), where=b != 0)
DivideWhereNonzero(a, b) == IF b = QI(0) THEN QI(0) ELSE QDiv(a, b)

\* one Simpson panel over the samples k, k+1, k+2 with unequal spacing
\* (scipy.integrate._basic_simpson)
simpson_panel(y, x, k) ==
    LET h0 == QSub(x[k + 1], x[k])
        h1 == QSub(x[k + 2], x[k + 1])
        hsum == QAdd(h0, h1)
        hprod == QMul(h0, h1)
        h0divh1 == DivideWhereNonzero(h0, h1)
    IN  QMul(QDiv(hsum, QI(6)),
             QAdd(QAdd(QMul(y[k], QSub(QI(2), DivideWhereNonzero(QI(1), h0divh1))),
                       QMul(y[k + 1], QMul(hsum, DivideWhereNonzero(hsum, hprod)))),
                  QMul(y[k + 2], QSub(QI(2), h0divh1))))

basic_simpson(y, x) ==
    QSum([p \in 1..((Len(y) - 1) \div 2) |-> simpson_panel(y, x, 2 * p - 1)])

\* scipy.integrate.simpson(y, x): two samples are one trapezoid, an odd
\* number of samples is a whole number of Simpson panels (the contours of
\* this model have 2, 3 or 5 samples)
simpson(y, x) ==
    CASE Len(y) # Len(x) -> Raised("ValueError")
      [] Len(y) = Len(x) /\ Len(y) = 2 ->
            Value(QDiv(QMul(QSub(x[2], x[1]), QAdd(y[1], y[2])), QI(2)))
      [] Len(y) = Len(x) /\ Len(y) % 2 = 1 /\ Len(y) >= 3 ->
            Value(basic_simpson(y, x))

\* the first step of __post_init__ that raises, if any: np.stack needs
\* equal shapes, np.gradient at least two elements, the arithmetic
\* broadcastable shapes, cumulative_trapezoid len(x) = len(y)
FluxSurface_shape_error(a) ==
    IF Len(a.Brvals) # Len(a.Bzvals) THEN "ValueError"               \* line 22
    ELSE IF Len(a.Z) < 2 \/ Len(a.R) < 2 THEN "ValueError"            \* lines 23-24
    ELSE IF ~Broadcastable1(a.Z, a.R) THEN "ValueError"               \* line 25
    ELSE IF ~Broadcastable1(a.Brvals, a.Bphivals) THEN "ValueError"   \* line 34
    ELSE IF Max(Len(a.Brvals), Len(a.Bphivals)) # Len(a.R)
         THEN "ValueError"                                            \* line 40
    ELSE "none"

FluxSurface_post_init(a) ==
    IF FluxSurface_shape_error(a) # "none"
    THEN Raised(FluxSurface_shape_error(a))
    ELSE
    LET dZ == np_gradient(QSeq(a.Z))
        dR == np_gradient(QSeq(a.R))
        dL == Sqrt1(Add1(Square1(dZ), Square1(dR)))
        lp == np_cumsum(dL)
        Bp == Sqrt1(Add1(Square1(QSeq(a.Brvals)), Square1(QSeq(a.Bzvals))))
        B2 == Add1(Square1(Bp), Square1(QSeq(a.Bphivals)))
        Bmag == Sqrt1(B2)
        integral == cumulative_trapezoid(Div1(Bmag, Bp), lp)
        last == integral[Len(integral)]
    IN  [kind |-> "object",
         R |-> a.R, Z |-> a.Z, Brvals |-> a.Brvals, Bzvals |-> a.Bzvals,
         Bphivals |-> a.Bphivals, Bprimervals |-> a.Bprimervals,
         Bprimezvals |-> a.Bprimezvals,
         dZ |-> dZ, dR |-> dR, dL |-> dL,
         nr |-> Div1(dZ, dL), nz |-> Div1([k \in 1..Len(dR) |-> QNeg(dR[k])], dL),
         lp |-> lp, Lp |-> QSum(dL),
         Bp |-> Bp, B2 |-> B2, Bmag |-> Bmag,
         Bmax |-> QMaxOf(Bmag), Bmin |-> QMinOf(Bmag),
         gamma_over_2pi |-> QDiv(QI(1), last),
         Theta_over_2pi |-> [k \in 1..Len(integral) |->
                               QMul(integral[k], QDiv(QI(1), last))]]

\* flux_surface_average(quantity): simpson(integrand * quantity, lp) /
\* simpson(integrand, lp) with integrand = 1 / Bp
flux_surface_average(o, quantity) ==
    LET integrand == Div1(<<QI(1)>>, o.Bp)
        num == simpson(Mul1(integrand, QSeq(quantity)), o.lp)
        den == simpson(integrand, o.lp)
    IN  IF num.kind = "raised" THEN num
        ELSE IF den.kind = "raised" THEN den
        ELSE Value(QDiv(num.v, den.v))


(***************************************************************************)
(* FluxSurface construction and averaging as a state machine.              *)
(***************************************************************************)
\* closed contours (the last sample is joined to the first), as sequences
\* of (R, Z) samples: a 3-4-5 triangle and a pentagon inscribed in a circle
\* of radius 25 about (30, 0); all chords have integer length
Triangle == << <<1, 0>>, <<5, 0>>, <<5, 3>> >>

Pentagon == << <<55, 0>>, <<37, 24>>, <<23, 24>>, <<5, 0>>, <<23, -24>> >>

\* a sample array whose last point repeats the one before it
Repeated == << <<1, 0>>, <<5, 0>>, <<5, 0>> >>

Contours == {Triangle, Pentagon, Repeated}

\* (Br, Bz, Bphi) at a sample: |Bp| = 5, |B| = 13, or |Bp| = 9, |B| = 15
RegularFieldSamples == { <<3, 4, 12>>, <<0, 9, 12>> }

\* the same, or no poloidal field: |Bp| = 0, |B| = 12
FieldSamples == RegularFieldSamples \cup { <<0, 0, 12>> }

\* the field samples tried on the contour c
FieldsOn(c) ==
    IF Len(c) <= 3 THEN [1..Len(c) -> FieldSamples]
    ELSE [1..Len(c) -> RegularFieldSamples]

QuantityValues == {0, 1}

Column(c, j) == [k \in 1..Len(c) |-> c[k][j]]

Ones(N) == [k \in 1..N |-> 1]

\* the arguments for the contour c with the field samples f
FSArgsOf(c, f) ==
    [R |-> Column(c, 1), Z |-> Column(c, 2),
     Brvals |-> Column(f, 1), Bzvals |-> Column(f, 2), Bphivals |-> Column(f, 3),
     Bprimervals |-> Ones(Len(c)), Bprimezvals |-> Ones(Len(c))]

ArrayNames ==
    {"R", "Z", "Brvals", "Bzvals", "Bphivals", "Bprimervals", "Bprimezvals"}

\* the arguments a with each array x cut to its first len[x] samples
Truncated(a, len) == [x \in ArrayNames |-> SubSeq(a[x], 1, len[x])]

\* well-formed arguments: all seven arrays of the contour's length
FSWellFormedArgs ==
    UNION {{FSArgsOf(c, f) : f \in FieldsOn(c)} : c \in Contours}

\* arguments in which every array is full, one sample short, or a single
\* sample
FSCutArgs ==
    LET a == FSArgsOf(Triangle, [k \in 1..Len(Triangle) |-> <<3, 4, 12>>])
        N == Len(Triangle)
    IN  {Truncated(a, len) : len \in [ArrayNames -> {N, N - 1, 1}]}

InitFS ==
    /\ fs_args \in FSWellFormedArgs \cup FSCutArgs
    /\ fs = NotBuilt
    /\ ret = NoCall
    /\ args = <<>> /\ epl = NotBuilt
    /\ IdleCoulomb /\ IdleFlows /\ IdleTracker /\ IdleFactory

\* FluxSurface(R, Z, psi, Brvals, Bzvals, Bphivals, Bprimervals, Bprimezvals)
FluxSurface_init ==
    /\ fs.kind = "none"
    /\ fs' = FluxSurface_post_init(fs_args)
    /\ UNCHANGED <<args, epl, ret, lnLambda0, fs_args, all_species, fc, tracker, factory>>

Call_flux_surface_average ==
    /\ fs.kind = "object"
    /\ \E quantity \in [1..Len(fs.lp) -> QuantityValues] :
           ret' = [fn |-> "flux_surface_average", quantity |-> quantity,
                   outcome |-> flux_surface_average(fs, quantity)]
    /\ UNCHANGED <<args, epl, lnLambda0, fs_args, fs, all_species, fc, tracker, factory>>

NextFS ==
    \/ FluxSurface_init
    \/ Call_flux_surface_average

SpecFS == InitFS /\ [][NextFS]_vars

(***************************************************************************)
(* Claims about FluxSurface                                                *)
(***************************************************************************)
SampleArrays(a) ==
    {a.R, a.Z, a.Brvals, a.Bzvals, a.Bphivals, a.Bprimervals, a.Bprimezvals}

EqualLengths(a) == \A x, y \in SampleArrays(a) : Len(x) = Len(y)

\* C9: constructing a FluxSurface from arrays of which two differ in length
\* raises; no object is constructed from unequal-length arrays.
C9_UnequalLengthsRejected ==
    (fs.kind # "none" /\ ~EqualLengths(fs_args)) => fs.kind = "raised"

\* s rotated by k positions: np.roll(s, -k)
Rotate(s, k) == [i \in 1..Len(s) |-> s[((i - 1 + k) % Len(s)) + 1]]

RotateArgs(a, k) == [x \in ArrayNames |-> Rotate(a[x], k)]

\* the samples are pairwise distinct points with a non-zero poloidal field
ProperContour(a) ==
    /\ \A i, j \in 1..Len(a.R) : (a.R[i] = a.R[j] /\ a.Z[i] = a.Z[j]) => i = j
    /\ \A i \in 1..Len(a.Brvals) : a.Brvals[i] # 0 \/ a.Bzvals[i] # 0

\* C10: the average of a quantity is the same when the contour samples, the
\* field samples and the quantity are all rotated by k positions.
C10_RotationInvariant ==
    (ret.fn = "flux_surface_average" /\ EqualLengths(fs_args)
        /\ ProperContour(fs_args)) =>
        \A k \in 0..(Len(fs_args.R) - 1) :
            flux_surface_average(FluxSurface_post_init(RotateArgs(fs_args, k)),
                                 Rotate(ret.quantity, k)) = ret.outcome


(***************************************************************************)
(* FlowCalculator (transport/flows.py): what a caller that imports the     *)
(* module and calls FlowCalculator(all_species, flux_surface) gets.        *)
(***************************************************************************)
\* from .Houlberg1997 import ... (flows.py, line 19)
flows_imports ==
    <<"contributing_states", "M_script", "mu_hat", "N_script", "xi",
      "ExtendedParticleList">>

\* the local names of __init__ that are bound when line 100 runs: the
\* parameters and line 99's fs (density_gradient and temperature_gradient
\* are first assigned inside the loop, at lines 136 and 139)
FlowCalculator_init_bound_locals ==
    {"self", "all_species", "flux_surface", "mu_N", "dataset_input", "fs"}

\* the import of plasmapy.transport.flows followed by
\* FlowCalculator(species, surface); no execution gets past line 100
FlowCalculator_init_result(species, surface) ==
    LET imported == \A k \in 1..Len(flows_imports) :
                        flows_imports[k] \in Houlberg1997_globals
        indexable == \A b \in 1..Len(species) : EPL_len(species[b]) > 0
    IN  CASE ~imported -> Raised("ImportError")                   \* line 19
          [] imported /\ ~indexable -> Raised("IndexError")         \* line 97
          [] imported /\ indexable
               /\ "density_gradient" \notin FlowCalculator_init_bound_locals
               -> Raised("UnboundLocalError")                       \* line 100

ZeroGradient(N) == [k \in 1..N |-> 0]

\* the charge states of one element, in ascending charge; in the third
\* list the H 1+ population is entered as two sub-states
SpeciesParticles ==
    { <<[element |-> "H", Z |-> 0], [element |-> "H", Z |-> 1]>>,
      <<[element |-> "He", Z |-> 1], [element |-> "He", Z |-> 2]>>,
      <<[element |-> "H", Z |-> 0], [element |-> "H", Z |-> 1],
        [element |-> "H", Z |-> 1]>> }

\* one ExtendedParticleList per element, with zero or non-zero gradients
SpeciesBlocks ==
    UNION {
        {EPL_init_result([particles |-> ps, n |-> n, T |-> ScalarT,
                          has_dT |-> TRUE, has_dn |-> TRUE, dT |-> g, dn |-> g],
                         StableArgsort(basic_elements(ps))) :
            n \in [1..Len(ps) -> Densities],
            g \in {ZeroGradient(Len(ps)), TaggedGradient(Len(ps), 0)}}
        : ps \in SpeciesParticles}

MaxSpecies == 2

InitFlow ==
    /\ all_species \in UNION {[1..count -> SpeciesBlocks] : count \in 1..MaxSpecies}
    /\ fc = NotBuilt
    /\ fs_args = FSArgsOf(Triangle, [k \in 1..Len(Triangle) |-> <<3, 4, 12>>])
    /\ fs = FluxSurface_post_init(fs_args)
    /\ args = <<>> /\ epl = NotBuilt /\ ret = NoCall
    /\ IdleCoulomb /\ IdleTracker /\ IdleFactory

FlowCalculator_init ==
    /\ fc.kind = "none"
    /\ fc' = FlowCalculator_init_result(all_species, fs)
    /\ UNCHANGED <<args, epl, ret, lnLambda0, fs_args, fs, all_species, tracker, factory>>

NextFlow == FlowCalculator_init

SpecFlow == InitFlow /\ [][NextFlow]_vars

(***************************************************************************)
(* Claims about FlowCalculator                                             *)
(***************************************************************************)
AllGradientsZero(species) ==
    \A b \in 1..Len(species) : \A k \in Positions(species[b]) :
        species[b].dT[k] = 0 /\ species[b].dn[k] = 0

ZeroFluxes == [particle_flux |-> QI(0), heat_flux |-> QI(0)]

\* C1: a FlowCalculator requested for species whose density and temperature
\* gradients are all zero is built, and its fluxes hold an entry for every
\* charge state of every species, with zero particle flux and zero heat flux.
C1_ZeroGradientsZeroFluxes ==
    (fc.kind # "none" /\ AllGradientsZero(all_species)) =>
        /\ fc.kind = "object"
        /\ \A b \in 1..Len(all_species) : \A k \in Positions(all_species[b]) :
              LET sym == ionic_symbol(all_species[b].data[k])
              IN  /\ sym \in DOMAIN fc.fluxes
                  /\ fc.fluxes[sym] = ZeroFluxes


\* the integral of |B| / Bp over the arc length lp of the whole sample
\* array, by the trapezoidal rule
UnnormalizedIntegral(o) ==
    LET y == Div1(o.Bmag, o.Bp)
    IN  QSum([i \in 1..(Len(o.lp) - 1) |->
                QDiv(QMul(QSub(o.lp[i + 1], o.lp[i]), QAdd(y[i], y[i + 1])), QI(2))])

\* Theta / (2 pi) starts at 0, increases strictly and ends at 1, and
\* gamma / (2 pi) is 1 / the un-normalized integral
ThetaClosesAt2Pi(o) ==
    LET N == Len(o.Theta_over_2pi)
    IN  /\ N = Len(o.lp)
        /\ o.Theta_over_2pi[1] = QI(0)
        /\ \A k \in 1..(N - 1) : QLess(o.Theta_over_2pi[k], o.Theta_over_2pi[k + 1])
        /\ o.Theta_over_2pi[N] = QI(1)
        /\ o.gamma_over_2pi = QDiv(QI(1), UnnormalizedIntegral(o))

\* the poloidal field is non-zero at every sample and the arc length grows
\* from every sample to the next
RegularSurface(o) ==
    /\ \A k \in 1..Len(o.Bp) : QLess(QI(0), o.Bp[k])
    /\ \A k \in 1..(Len(o.lp) - 1) : QLess(o.lp[k], o.lp[k + 1])

HasSingularChargeState(species) ==
    \E b \in 1..Len(species) : \E k \in Positions(species[b]) : species[b].n[k] = 0

\* C12: when the matrix of some charge state is not invertible, the
\* construction ends in an error that names the species block that failed.
C12_SingularBlockIdentified ==
    (fc.kind # "none" /\ HasSingularChargeState(all_species)) =>
        /\ fc.kind = "raised"
        /\ "block" \in DOMAIN fc
        /\ fc.block \in 1..Len(all_species)

\* every element of every block has a charge state with Z^2 n > 0
AllElementsPresent(species) ==
    \A b \in 1..Len(species) : EveryElementPresent(species[b])

\* C14: with a charge state of zero density among the species, the
\* FlowCalculator is built, fluxes, diffusion_coefficient,
\* thermal_conductivity and bootstrap_current evaluate, every charge state
\* has its entry, and the entry of a zero-density state is a zero flux.
C14_ZeroDensityStateExcludedCleanly ==
    (fc.kind # "none" /\ HasSingularChargeState(all_species)
        /\ AllElementsPresent(all_species)) =>
        /\ fc.kind = "object"
        /\ fc.bootstrap_current.kind = "value"
        /\ \A b \in 1..Len(all_species) : \A k \in Positions(all_species[b]) :
              LET sym == ionic_symbol(all_species[b].data[k])
              IN  /\ sym \in DOMAIN fc.fluxes
                  /\ sym \in DOMAIN fc.diffusion_coefficient
                  /\ sym \in DOMAIN fc.thermal_conductivity
                  /\ all_species[b].n[k] = 0 => fc.fluxes[sym] = ZeroFluxes

\* positions k and k + 1 of the list hold two identical sub-states
IsSplitPair(o, k) ==
    /\ k + 1 \in Positions(o)
    /\ o.n[k] > 0
    /\ o.data[k] = o.data[k + 1] /\ o.n[k] = o.n[k + 1] /\ o.T[k] = o.T[k + 1]
    /\ o.dT[k] = o.dT[k + 1] /\ o.dn[k] = o.dn[k + 1]

Without(s, k) == [i \in 1..(Len(s) - 1) |-> IF i < k THEN s[i] ELSE s[i + 1]]

\* the list with the sub-states k and k + 1 joined into one population
Unsplit(o, k) ==
    [o EXCEPT !.data = Without(o.data, k + 1),
              !.n = Without([o.n EXCEPT ![k] = 2 * o.n[k]], k + 1),
              !.T = Without(o.T, k + 1),
              !.dT = Without(o.dT, k + 1),
              !.dn = Without(o.dn, k + 1),
              !.indices = [i \in 1..(Len(o.indices) - 1) |-> i]]

QFluxSum(f, g) ==
    [particle_flux |-> QAdd(f.particle_flux, g.particle_flux),
     heat_flux |-> QAdd(f.heat_flux, g.heat_flux)]

\* the fluxes entry of the charge state at position k of block b
FluxesOf(c, species, b, k) == c.fluxes[ionic_symbol(species[b].data[k])]

\* C18: for species in which one population is entered as two identical
\* sub-states of half the density each, the solver's result matches the
\* result for the unsplit population: the FlowCalculator of either input is
\* built, the unsplit state's flux is the sum of the two halves' fluxes and
\* the fluxes of the other charge states agree.
C18_SplitInvariant ==
    \A b \in 1..Len(all_species) : \A k \in Positions(all_species[b]) :
        (fc.kind # "none" /\ IsSplitPair(all_species[b], k)) =>
            LET joined == [all_species EXCEPT ![b] = Unsplit(all_species[b], k)]
                whole == FlowCalculator_init_result(joined, fs)
            IN  /\ fc.kind = "object"
                /\ whole.kind = "object"
                /\ FluxesOf(whole, joined, b, k) =
                       QFluxSum(FluxesOf(fc, all_species, b, k),
                                FluxesOf(fc, all_species, b, k + 1))
                /\ \A c \in 1..Len(joined) : \A j \in Positions(joined[c]) :
                      (c # b \/ j < k) =>
                          FluxesOf(whole, joined, c, j) = FluxesOf(fc, all_species, c, j)


(***************************************************************************)
(* Further claims about ExtendedParticleList                               *)
(***************************************************************************)
\* the charge numbers of the states of element e, in list order
ChargesOf(o, e) ==
    LET F[k \in 0..EPL_len(o)] ==
            IF k = 0 THEN <<>>
            ELSE IF o.data[k].element = e THEN Append(F[k - 1], o.data[k].Z)
            ELSE F[k - 1]
    IN  F[EPL_len(o)]

\* C17: every constructed list holds, for each of its elements, exactly the
\* charge states 0, 1, ..., Z of that element in this order, and no
\* negative density; other inputs are rejected by the constructor.
C17_CompleteChargeStates ==
    epl.kind = "object" =>
        /\ \A k \in Positions(epl) :
              ChargesOf(epl, epl.data[k].element) =
                  [z \in 1..(MaxCharge(epl.data[k].element) + 1) |-> z - 1]
        /\ \A k \in Positions(epl) : epl.n[k] >= 0

\* C19: effective_momentum_relaxation_rate is an N x N matrix over the
\* charge states, and the entry for (a, b) equals the entry for (b, a).
C19_SymmetricMatrix ==
    ret.fn = "effective_momentum_relaxation_rate" =>
        /\ ret.shape = <<EPL_len(epl), EPL_len(epl)>>
        /\ \A a, b \in Positions(epl) : ret.outcome.v[a][b] = ret.outcome.v[b][a]

\* lhs[3 * i : 3 * i + 3, ...] and ubar[3 * j : 3 * j + 3] (flows.py lines
\* 197, 210): the rows (columns) of block i, counted from 0
BlockSlice(i) == (3 * i)..(3 * i + 2)

\* C24: for K species blocks the constructed FlowCalculator has assembled a
\* 3K x 3K system; block (i, j) occupies rows 3i..3i+2 and columns
\* 3j..3j+2 and is written exactly once, the blocks are disjoint and cover
\* the matrix, and the slice 3j..3j+2 of the solved vector is the flow
\* unknown of block j used in the back-substitution.
C24_BlockSystemAssembled ==
    fc.kind # "none" =>
        LET count == Len(all_species)
            Blocks == (0..(count - 1)) \X (0..(count - 1))
        IN  /\ fc.kind = "object"
            /\ fc.lhs_shape = <<3 * count, 3 * count>>
            /\ DOMAIN fc.lhs_writes = Blocks
            /\ \A ij \in Blocks :
                  fc.lhs_writes[ij] =
                      [rows |-> BlockSlice(ij[1]), cols |-> BlockSlice(ij[2]), count |-> 1]
            /\ \A ij, kl \in Blocks :
                  ij # kl => (BlockSlice(ij[1]) \X BlockSlice(ij[2]))
                                \cap (BlockSlice(kl[1]) \X BlockSlice(kl[2])) = {}
            /\ UNION {BlockSlice(ij[1]) \X BlockSlice(ij[2]) : ij \in Blocks}
                  = (0..(3 * count - 1)) \X (0..(3 * count - 1))
            /\ \A b \in 0..(count - 1) : fc.ubar_slice[b] = BlockSlice(b)

(***************************************************************************)
(* ParticleTracker (simulation/particle_tracker/particle_tracker.py).      *)
(* One field-free grid; the time step dt is a scalar given by the caller   *)
(* (synchronized, not adaptive); the save routine is the default           *)
(* DoNotSaveSaveRoutine.  Positions and velocities are rows of three       *)
(* extended rationals, NaN marking stopped and removed particles.  Masses  *)
(* are in electron masses, charges in elementary charges.                  *)
(***************************************************************************)
MaxParticles == 2

MaxPushes == 2

MaxRuns == 2

\* energy lost per unit length in the dense medium (stopping power * rho)
DenseLoss == 4000

_REQUIRED_QUANTITIES == {"E_x", "E_y", "E_z", "B_x", "B_y", "B_z"}

TrackerParticles == {"p+", "e-"}

particle_charge(particle) == IF particle = "p+" THEN 1 ELSE -1

particle_mass(particle) == IF particle = "p+" THEN 1836 ELSE 1

Vec3(a) == <<QI(a), QI(0), QI(0)>>

\* np.linalg.norm(v, axis=-1)
norm(v) == QSqrt(QAdd(QAdd(QMul(v[1], v[1]), QMul(v[2], v[2])), QMul(v[3], v[3])))

Scale(c, v) == [k \in 1..3 |-> QMul(c, v[k])]

\* ParticleTracker.__init__ for one grid, dt given, no save routine
ParticleTracker_init(grid_T_i, req_rho, loss, total) ==
    [kind |-> "object",
     grid_quantities |-> _REQUIRED_QUANTITIES
                           \cup (IF grid_T_i THEN {"T_i"} ELSE {})
                           \cup (IF req_rho THEN {"rho"} ELSE {}),
     loss |-> loss,
     required_quantities |-> _REQUIRED_QUANTITIES \cup (IF req_rho THEN {"rho"} ELSE {}),
     dt |-> 1,
     total |-> total,
     has_run |-> FALSE,
     do_stopping |-> FALSE,
     do_scattering |-> FALSE,
     attrs |-> {},
     q |-> 0, m |-> 0, particle |-> "", nparticles |-> 0,
     x |-> <<>>, v |-> <<>>,
     stopping_method |-> "", scattering_method |-> "", target |-> "",
     iteration_number |-> 0, time |-> 0,
     is_finished |-> FALSE, pc |-> "idle", runs |-> 0,
     log |-> <<>>]

\* ~np.logical_or(np.isnan(self.x[:, 0]), np.isnan(self.v[:, 0]))
tracked_particle_mask(t) ==
    [i \in 1..Len(t.x) |-> ~(IsNaN(t.x[i][1]) \/ IsNaN(t.v[i][1]))]

nparticles_tracked(t) == Cardinality({i \in 1..Len(t.x) : tracked_particle_mask(t)[i]})

Returned == [kind |-> "returned"]

enforce_order(t) == IF t.has_run THEN Raised("RuntimeError") ELSE Returned

\* load_particles: the tracker after the call and how the call ended
load_particles_result(t, x, v, particle) ==
    IF enforce_order(t).kind = "raised" THEN <<t, enforce_order(t)>>
    ELSE LET t1 == [t EXCEPT !.q = particle_charge(particle),
                             !.m = particle_mass(particle),
                             !.particle = particle,
                             !.attrs = @ \cup {"q", "m", "_particle"}]
         IN  IF Len(x) # Len(v) THEN <<t1, Raised("ValueError")>>
             ELSE <<[t1 EXCEPT !.nparticles = Len(x), !.x = x, !.v = v,
                               !.attrs = @ \cup {"nparticles", "x", "v"}],
                    Returned>>

\* _validate_stopping_inputs for one grid, a one-particle target and a
\* target_rho of shape (1,): the set {1, 1, (1,)} has two elements
validate_stopping_inputs(method, NIST_target_string, I) ==
    CASE method = "NIST" ->
            IF NIST_target_string = "None" THEN Raised("ValueError") ELSE Returned
      [] method = "Bethe" ->
            IF I = "scalar" THEN Returned ELSE Raised("ValueError")
      [] OTHER -> Raised("ValueError")

set_target_attributes(t, target) ==
    [t EXCEPT !.target = target,
              !.attrs = @ \cup {"_target", "_target_rho", "_target_number_density"}]

add_stopping_result(t, method, NIST_target_string, I) ==
    IF validate_stopping_inputs(method, NIST_target_string, I).kind = "raised"
    THEN <<t, validate_stopping_inputs(method, NIST_target_string, I)>>
    ELSE LET t1 == set_target_attributes(t, "target")
         IN  IF method = "NIST"
             THEN IF "_particle" \notin t1.attrs THEN <<t1, Raised("AttributeError")>>
                  ELSE <<[t1 EXCEPT !.do_stopping = TRUE,
                                    !.stopping_method = method,
                                    !.attrs = @ \cup {"_stopping_method",
                                                      "_stopping_power_interpolators"}],
                         Returned>>
             \* "Bethe": `for I_grid in I` iterates over a scalar Quantity
             ELSE <<[t1 EXCEPT !.attrs = @ \cup {"_raised_energy_warning"}],
                    Raised("TypeError")>>

ScatterRoutineTypes == {"differential cross-section", "mean square rate"}

add_scattering_result(t, scatter_routine_type) ==
    IF "T_i" \notin t.grid_quantities THEN <<t, Returned>>
    ELSE LET t1 == [t EXCEPT !.required_quantities = @ \cup {"T_i"}]
         IN  IF scatter_routine_type \notin ScatterRoutineTypes
             THEN <<t1, Raised("ValueError")>>
             ELSE <<[set_target_attributes(t1, "target") EXCEPT
                        !.scattering_method = scatter_routine_type,
                        !.do_scattering = TRUE,
                        !.attrs = @ \cup {"_target", "_target_rho",
                                          "_target_number_density",
                                          "_scattering_method", "_scattering_routine"}],
                    Returned>>

\* _interpolate_grid and _update_time with a scalar dt
interpolate_and_update_time(t) ==
    [t EXCEPT !.iteration_number = @ + 1, !.time = @ + t.dt]

\* _update_position writing the result for every particle, tracked or not
update_position_unmasked(t) ==
    [t EXCEPT !.x = [i \in 1..Len(t.x) |->
                        [k \in 1..3 |-> QAdd(t.x[i][k], QMul(t.v[i][k], QI(t.dt)))]]]

\* _update_position in zero fields: the tracked particles fly freely
update_position(t) ==
    [t EXCEPT !.x = [i \in 1..Len(t.x) |->
                        IF tracked_particle_mask(t)[i]
                        THEN [k \in 1..3 |-> QAdd(t.x[i][k], QMul(t.v[i][k], QI(t.dt)))]
                        ELSE t.x[i]]]

\* _update_velocity_stopping, "NIST" branch, in a medium of uniform density
stopped_velocity(t, v) ==
    LET current_speed == norm(v)
        unit_vector == Scale(QDiv(QI(1), current_speed), v)
        dx == QMul(current_speed, QI(t.dt))
        dE == QNeg(QMul(QI(t.loss), dx))
        E == QAdd(QMul(Q(t.m, 2), QMul(current_speed, current_speed)), dE)
        new_speed == QSqrt(QDiv(QMul(QI(2), E), QI(t.m)))
    IN  IF QLess(E, QI(0)) THEN <<NaN, NaN, NaN>> ELSE Scale(new_speed, unit_vector)

update_velocity_stopping(t) ==
    [t EXCEPT !.v = [i \in 1..Len(t.v) |->
                        IF tracked_particle_mask(t)[i]
                        THEN stopped_velocity(t, t.v[i]) ELSE t.v[i]]]

\* _push: the tracker after the push and how the push ended
push_result(t) ==
    LET t1 == update_position(interpolate_and_update_time(t))
        t2 == IF t1.do_stopping THEN update_velocity_stopping(t1) ELSE t1
    IN  IF t1.do_stopping /\ "rho" \notin t1.required_quantities
        THEN <<t1, Raised("KeyError")>>
        ELSE IF nparticles_tracked(t2) = 0 THEN <<t2, Returned>>
        ELSE IF ~t2.do_scattering THEN <<t2, Returned>>
        \* no case of the match names "differential cross-section"
        ELSE IF t2.scattering_method # "mean square rate"
        THEN <<t2, Raised("UnboundLocalError")>>
        \* self.dt[self._tracked_particle_mask] with a scalar dt
        ELSE <<t2, Raised("IndexError")>>

PositionSamples == {0}

VelocitySamples == {0, -2}

ParticleRows(S) == UNION {[1..count -> {Vec3(a) : a \in S}] : count \in 1..MaxParticles}

\* the (x, v) arguments of load_particles: every pair of arrays of one
\* length, and pairs whose numbers of particles differ by one
LoadArguments ==
    {xv \in ParticleRows(PositionSamples) \X ParticleRows(VelocitySamples) :
        \/ Len(xv[1]) = Len(xv[2])
        \/ /\ Len(xv[2]) = Len(xv[1]) + 1
           /\ \A i \in 1..Len(xv[2]) : xv[2][i] = Vec3(0)}

NoTrackerCall == [fn |-> "none", outcome |-> Returned]

InitPT ==
    /\ \E grid_T_i, req_rho \in BOOLEAN, total \in {0, MaxPushes} :
         \E loss \in (IF req_rho THEN {0, DenseLoss} ELSE {0}) :
            tracker = ParticleTracker_init(grid_T_i, req_rho, loss, total)
    /\ ret = NoTrackerCall
    /\ args = <<>> /\ epl = NotBuilt
    /\ IdleCoulomb /\ IdleFluxSurface /\ IdleFlows /\ IdleFactory

idle_pt == <<args, epl, lnLambda0, fs_args, fs, all_species, fc, factory>>

load_particles(x, v, particle) ==
    /\ tracker.pc = "idle"
    /\ tracker' = load_particles_result(tracker, x, v, particle)[1]
    /\ ret' = [fn |-> "load_particles",
               outcome |-> load_particles_result(tracker, x, v, particle)[2]]
    /\ UNCHANGED idle_pt

add_stopping(method, NIST_target_string, I) ==
    /\ tracker.pc = "idle"
    /\ tracker' = add_stopping_result(tracker, method, NIST_target_string, I)[1]
    /\ ret' = [fn |-> "add_stopping",
               outcome |-> add_stopping_result(tracker, method, NIST_target_string, I)[2]]
    /\ UNCHANGED idle_pt

add_scattering(scatter_routine_type) ==
    /\ tracker.pc = "idle"
    /\ tracker' = add_scattering_result(tracker, scatter_routine_type)[1]
    /\ ret' = [fn |-> "add_scattering",
               outcome |-> add_scattering_result(tracker, scatter_routine_type)[2]]
    /\ UNCHANGED idle_pt

\* what one pass through the loop body of run() does, in order: the
\* termination condition is read, then _push, then the save routine's hook
loop_body_events(finished, raised) ==
    <<IF finished THEN "is_finished: True" ELSE "is_finished: False">>
        \o (IF raised THEN <<"_push raised">> ELSE <<"_push", "post_push_hook">>)

\* run() after the loop without the final save
after_loop_events_unsaved == <<"_has_run = True">>

\* what run() does after the loop, in order
after_loop_events == <<"_has_run = True", "save">>

\* run() up to the first test of the loop condition
run_enter ==
    /\ tracker.pc = "idle"
    /\ tracker.runs < MaxRuns
    /\ IF "x" \notin tracker.attrs
       THEN /\ tracker' = [tracker EXCEPT !.runs = @ + 1]
            /\ ret' = [fn |-> "run", outcome |-> Raised("ValueError")]
       ELSE /\ tracker' = [tracker EXCEPT !.iteration_number = 0, !.time = 0,
                                          !.is_finished = FALSE, !.pc = "loop",
                                          !.runs = @ + 1, !.log = <<>>,
                                          !.attrs = @ \cup {"iteration_number", "time",
                                                            "entered_grid"}]
            /\ ret' = [fn |-> "run", outcome |-> [kind |-> "running"]]
    /\ UNCHANGED idle_pt

\* one pass through the body of the while loop of run()
run_iterate ==
    /\ tracker.pc = "loop"
    /\ ~(tracker.is_finished \/ nparticles_tracked(tracker) = 0)
    /\ LET finished == tracker.iteration_number >= tracker.total
           pushed == push_result([tracker EXCEPT !.is_finished = finished])
       IN  IF pushed[2].kind = "raised"
           THEN /\ tracker' = [pushed[1] EXCEPT
                                  !.pc = "idle",
                                  !.log = @ \o loop_body_events(finished, TRUE)]
                /\ ret' = [fn |-> "run", outcome |-> pushed[2]]
           ELSE /\ tracker' = [pushed[1] EXCEPT
                                  !.log = @ \o loop_body_events(finished, FALSE)]
                /\ ret' = ret
    /\ UNCHANGED idle_pt

\* run() after the loop
run_exit ==
    /\ tracker.pc = "loop"
    /\ tracker.is_finished \/ nparticles_tracked(tracker) = 0
    /\ tracker' = [tracker EXCEPT !.has_run = TRUE, !.pc = "idle",
                                   !.log = @ \o after_loop_events]
    /\ ret' = [fn |-> "run", outcome |-> Returned]
    /\ UNCHANGED idle_pt

StoppingMethods == {"NIST", "Bethe", "SRIM"}

SetupCall ==
    \/ \E xv \in LoadArguments, particle \in TrackerParticles :
          load_particles(xv[1], xv[2], particle)
    \/ \E method \in StoppingMethods, NIST_target_string \in {"None", "list"},
          I \in {"scalar", "array"} : add_stopping(method, NIST_target_string, I)
    \/ \E scatter_routine_type \in ScatterRoutineTypes \cup {"rate"} :
          add_scattering(scatter_routine_type)

NextPT ==
    \/ SetupCall
    \/ run_enter
    \/ run_iterate
    \/ run_exit

SpecPT == InitPT /\ [][NextPT]_vars

(***************************************************************************)
(* Claim C20                                                               *)
(***************************************************************************)
\* what the setup methods configure
TrackerSetup(t) ==
    <<t.x, t.v, t.q, t.m, t.do_stopping, t.stopping_method,
      t.do_scattering, t.scattering_method, t.target, t.required_quantities>>

SetupMethods == {"load_particles", "add_stopping", "add_scattering"}

\* a step in which one of the setup methods is called: run() is not under
\* way and the call that ended is one of the three
IsSetupStep == tracker.pc = "idle" /\ ret'.fn \in SetupMethods

\* C20: once run() has completed, every call of load_particles,
\* add_stopping or add_scattering raises RuntimeError and leaves x, v, q, m
\* and the stopping and scattering configuration as they were; before run()
\* has completed none of them raises RuntimeError.
C20_SetupAfterRunRejected ==
    [][IsSetupStep =>
         IF tracker.has_run
         THEN /\ ret'.outcome = Raised("RuntimeError")
              /\ TrackerSetup(tracker') = TrackerSetup(tracker)
         ELSE ret'.outcome # Raised("RuntimeError")]_vars

(***************************************************************************)
(* Claims C25, C26                                                         *)
(***************************************************************************)
Events(t, e) == {i \in 1..Len(t.log) : t.log[i] = e}

\* C25: within a run no push is performed once the termination condition
\* has been read as finished; in particular a run that starts with the
\* condition already finished performs no push.
C25_NoPushOnceFinished ==
    \A i \in Events(tracker, "is_finished: True") :
        \A j \in Events(tracker, "_push") \cup Events(tracker, "_push raised") : j < i

RunReturned ==
    tracker.kind = "object" /\ tracker.pc = "idle"
        /\ ret.fn = "run" /\ ret.outcome = Returned

\* C26: in a run every push is followed at once by exactly one
\* post_push_hook, no hook is called without a push before it, and when the
\* loop has ended _has_run is set and then save is called, once, as the
\* last thing the run does with the save routine.
C26_HookAfterEveryPush ==
    tracker.kind = "object" =>
        /\ \A i \in Events(tracker, "_push") :
              i < Len(tracker.log) /\ tracker.log[i + 1] = "post_push_hook"
        /\ \A i \in Events(tracker, "post_push_hook") :
              i > 1 /\ tracker.log[i - 1] = "_push"
        /\ \A i \in Events(tracker, "save") :
              i = Len(tracker.log) /\ i > 1 /\ tracker.log[i - 1] = "_has_run = True"
        /\ \A i \in Events(tracker, "_has_run = True") :
              i + 1 = Len(tracker.log) /\ tracker.log[i + 1] = "save"
        /\ RunReturned =>
              tracker.has_run /\ Cardinality(Events(tracker, "save")) = 1

\* a run that pushed and ended because no tracked particle was left
C26_Witness ==
    /\ RunReturned
    /\ nparticles_tracked(tracker) = 0
    /\ Cardinality(Events(tracker, "_push")) >= 1

\* a run that ended without any push
C26_WitnessNoPush ==
    /\ RunReturned
    /\ nparticles_tracked(tracker) = 0
    /\ tracker.log = after_loop_events

(***************************************************************************)
(* Claim C28                                                               *)
(***************************************************************************)
\* C28: scattering is only ever enabled with one of the two routine types
\* add_scattering accepts, and no push with scattering enabled ends
\* without a mean-square scatter rate for the stored type (the
\* UnboundLocalError of _update_velocity_scattering when no branch of its
\* match assigns mean_square_scatter_rate).
C28_StoredTypeHasBranch ==
    tracker.kind = "object" =>
        /\ tracker.do_scattering => tracker.scattering_method \in ScatterRoutineTypes
        /\ ~(ret.fn = "run" /\ ret.outcome = Raised("UnboundLocalError"))

(***************************************************************************)
(* Claim C27                                                               *)
(***************************************************************************)
AllNaN(row) == \A k \in 1..3 : IsNaN(row[k])

NoNaN(row) == \A k \in 1..3 : ~IsNaN(row[k])

\* the three particle states of the class docstring
ParticleState(t, i) ==
    IF NoNaN(t.x[i]) /\ NoNaN(t.v[i]) THEN "tracked"
    ELSE IF NoNaN(t.x[i]) /\ AllNaN(t.v[i]) THEN "stopped"
    ELSE IF AllNaN(t.x[i]) /\ AllNaN(t.v[i]) THEN "removed"
    ELSE "undefined"

\* C27: in every step of a run each particle is tracked, stopped or
\* removed afterwards; a particle that was not tracked before the step
\* keeps its position and velocity (so it is never tracked again), and the
\* number of tracked particles does not grow.
C27_StatesOnlyMoveForward ==
    [][tracker.pc = "loop" =>
         /\ \A i \in 1..Len(tracker.x) :
               /\ ParticleState(tracker', i) # "undefined"
               /\ ParticleState(tracker, i) # "tracked" =>
                     /\ tracker'.x[i] = tracker.x[i]
                     /\ tracker'.v[i] = tracker.v[i]
         /\ nparticles_tracked(tracker') <= nparticles_tracked(tracker)]_vars

\* one particle has been stopped, another is still tracked, and a push has
\* been made since the stop
C27_Witness ==
    /\ tracker.kind = "object" /\ tracker.pc = "loop"
    /\ Cardinality(Events(tracker, "_push")) >= 2
    /\ \E i, j \in 1..Len(tracker.x) :
          /\ ParticleState(tracker, i) = "stopped"
          /\ ParticleState(tracker, j) = "tracked"
          /\ tracker.x[j] # Vec3(0)

(***************************************************************************)
(* The adaptive time step (dt=None at construction).  One grid: a cube     *)
(* |x_k| <= grid_extent of resolution grid_resolution carrying a uniform   *)
(* magnetic field, which is given by the value of                          *)
(* 2 pi / (steps_per_gyroperiod * B) it leads to (gyro_unit, Inf for       *)
(* B = 0).  Fields interpolate to zero off the grid.                       *)
(***************************************************************************)
\* a <= b for extended rationals, False when either is NaN
QLe(a, b) ==
    IF IsNaN(a) \/ IsNaN(b) THEN FALSE
    ELSE IF a.d = 0 /\ b.d = 0 THEN a.n <= b.n
    ELSE IF a.d = 0 THEN a.n < 0
    ELSE IF b.d = 0 THEN b.n > 0
    ELSE a.n * b.d <= b.n * a.d

np_minimum(a, b) == IF IsNaN(a) \/ IsNaN(b) THEN NaN ELSE IF QLe(a, b) THEN a ELSE b

np_maximum(a, b) == IF IsNaN(a) \/ IsNaN(b) THEN NaN ELSE IF QLe(a, b) THEN b ELSE a

\* np.min / np.max of a non-empty sequence
RECURSIVE np_min(_)
np_min(s) == IF Len(s) = 1 THEN s[1] ELSE np_minimum(Head(s), np_min(Tail(s)))

RECURSIVE np_max(_)
np_max(s) == IF Len(s) = 1 THEN s[1] ELSE np_maximum(Head(s), np_max(Tail(s)))

\* np.clip(a, lo, hi)
np_clip(a, lo, hi) == np_minimum(np_maximum(a, lo), hi)

Courant_parameter == Q(1, 2)

\* ParticleTracker.__init__ with dt=None: the time step is adaptive, and
\* synchronized when the termination condition or the save routine asks
ParticleTracker_init_adaptive(synchronized, dt_range, gyro_unit) ==
    [is_adaptive_time_step |-> TRUE,
     is_synchronized_time_step |-> synchronized,
     dt_range |-> dt_range,
     grid_resolution |-> QI(2),
     grid_extent |-> QI(5),
     gyro_unit |-> gyro_unit]
        @@ [ParticleTracker_init(FALSE, FALSE, 0, 0) EXCEPT !.dt = "None"]

\* grid.on_grid(x) with the untracked particles masked out
particles_on_grid(t) ==
    [i \in 1..Len(t.x) |->
        /\ tracked_particle_mask(t)[i]
        /\ \A k \in 1..3 : QLe(QNeg(t.grid_extent), t.x[i][k]) /\ QLe(t.x[i][k], t.grid_extent)]

TrackedParticles(t) == {i \in 1..Len(t.x) : tracked_particle_mask(t)[i]}

\* SetToSeq for index sets
RECURSIVE IndicesInOrder(_)
IndicesInOrder(S) ==
    IF S = {} THEN <<>>
    ELSE LET least == CHOOSE i \in S : \A j \in S : i <= j
         IN  <<least>> \o IndicesInOrder(S \ {least})

\* float(np.max(np.linalg.norm(self.v[tracked_mask], axis=-1)))
vmax(t) ==
    LET tracked == IndicesInOrder(TrackedParticles(t))
    IN  np_max([j \in 1..Len(tracked) |-> norm(t.v[tracked[j]])])

\* the candidate of the gyration: np.inf when the largest field felt by a
\* tracked particle is zero
gyro_candidate(t) ==
    IF IsInf(t.gyro_unit) \/ ~(\E i \in 1..Len(t.x) : particles_on_grid(t)[i]) THEN Inf
    ELSE QMul(Q(t.m, Abs(t.q)), t.gyro_unit)

\* dt[dt == np.inf] = np.max(gridstep)
replace_infinite_dt(dt, gridstep) ==
    [i \in 1..Len(dt) |-> IF dt[i] = Inf THEN gridstep ELSE dt[i]]

\* _adaptive_dt: one value per particle, or one value when synchronized
adaptive_dt(t) ==
    LET gridstep == QMul(Courant_parameter, QDiv(t.grid_resolution, vmax(t)))
        candidates == [i \in 1..Len(t.x) |->
                          << np_clip(IF particles_on_grid(t)[i] THEN gridstep ELSE Inf,
                                     t.dt_range[1], t.dt_range[2]),
                             np_clip(gyro_candidate(t), t.dt_range[1], t.dt_range[2]) >>]
    IN  IF ~t.is_synchronized_time_step
        THEN replace_infinite_dt([i \in 1..Len(t.x) |-> np_min(candidates[i])], gridstep)
        ELSE <<np_min([i \in 1..Len(t.x) |-> np_min(candidates[i])])>>

DtRanges == { <<QI(0), Inf>>, <<QI(1), QI(4)>>, <<QI(3), Inf>> }

GyroUnits == {Inf, Q(1, 1836)}

AdaptivePositionSamples == {0, 9}

AdaptiveVelocitySamples == {0, 1, -2}

AdaptiveLoadArguments ==
    {xv \in ParticleRows(AdaptivePositionSamples) \X ParticleRows(AdaptiveVelocitySamples) :
        Len(xv[1]) = Len(xv[2])}

InitDT ==
    /\ \E synchronized \in BOOLEAN, dt_range \in DtRanges, gyro_unit \in GyroUnits :
          tracker = ParticleTracker_init_adaptive(synchronized, dt_range, gyro_unit)
    /\ ret = NoTrackerCall
    /\ args = <<>> /\ epl = NotBuilt
    /\ IdleCoulomb /\ IdleFluxSurface /\ IdleFlows /\ IdleFactory

\* the time step _update_time takes from _adaptive_dt for the next push
Call_adaptive_dt ==
    /\ "x" \in tracker.attrs
    /\ TrackedParticles(tracker) # {}
    /\ ret' = [fn |-> "_adaptive_dt", outcome |-> Value(adaptive_dt(tracker))]
    /\ UNCHANGED tracker
    /\ UNCHANGED idle_pt

NextDT ==
    \/ \E xv \in AdaptiveLoadArguments, particle \in TrackerParticles :
          load_particles(xv[1], xv[2], particle)
    \/ Call_adaptive_dt

SpecDT == InitDT /\ [][NextDT]_vars

(***************************************************************************)
(* Claim C21                                                               *)
(***************************************************************************)
InDtRange(t, dt) == QLe(t.dt_range[1], dt) /\ QLe(dt, t.dt_range[2])

\* C21: every adaptive time step, for every particle and in the
\* synchronized case, lies between dt_range[0] and dt_range[1].
C21_DtWithinRange ==
    ret.fn = "_adaptive_dt" =>
        \A i \in 1..Len(ret.outcome.v) : InDtRange(tracker, ret.outcome.v[i])

(***************************************************************************)
(* BasicRegistrationFactory (utils/datatype_factory_base.py).  Widget      *)
(* types are named; a validation function is named too and stands for the  *)
(* set of call arguments it accepts.  The factory record also keeps the    *)
(* history of the register / unregister calls that returned.               *)
(***************************************************************************)
WidgetTypes == {"GenericPlasma", "Plasma3D", "PlasmaBlob"}

CallArguments == {"domain", "blob", "spam"}

\* the attributes of each widget type that may serve as validation function:
\* <<attribute name, is it a classmethod of the type, the function>>
WidgetAttributes(W) ==
    CASE W = "Plasma3D" ->
            << <<"is_datasource_for", TRUE, "Plasma3D.is_datasource_for">> >>
      [] W = "PlasmaBlob" ->
            << <<"_factory_validation_function", TRUE, "PlasmaBlob._factory_validation_function">> >>
      [] OTHER ->
            << <<"is_datasource_for", FALSE, "GenericPlasma.is_datasource_for">> >>

\* the arguments a validation function returns True for
Accepts(vfunc) ==
    CASE vfunc = "Plasma3D.is_datasource_for" -> {"domain"}
      [] vfunc = "PlasmaBlob._factory_validation_function" -> {"blob", "domain"}
      [] vfunc = "accept_blob" -> {"blob"}
      [] OTHER -> {}

\* the values passed as validation_function: None, a callable, a string
ValidationFunctionArguments == {"None", "accept_blob", "not callable"}

callable(f) == f = "accept_blob"

Instance(W) == [kind |-> "instance", type |-> W]

BasicRegistrationFactory_init(default_widget_type, additional_validation_functions) ==
    [kind |-> "object",
     registry |-> <<>>,
     default_widget_type |-> default_widget_type,
     validation_functions |-> <<"_factory_validation_function">>
                                 \o additional_validation_functions,
     accepted |-> {},
     unregistered |-> {}]

\* self.registry[W] = vfunc
SetItem(registry, W, vfunc) ==
    [key \in DOMAIN registry \cup {W} |-> IF key = W THEN vfunc ELSE registry[key]]

\* self.registry.pop(W), for a key that is present
Pop(registry, W) == [key \in DOMAIN registry \ {W} |-> registry[key]]

candidate_widget_types(f, a) == {key \in DOMAIN f.registry : a \in Accepts(f.registry[key])}

\* _check_registered_widget with the default type tried before the number
\* of matches is looked at
check_registered_widget_default_first(f, a) ==
    LET candidates == candidate_widget_types(f, a)
    IN  IF f.default_widget_type # "None" /\ Cardinality(candidates) # 1
        THEN Instance(f.default_widget_type)
        ELSE IF candidates = {} THEN Raised("NoMatchError")
        ELSE IF Cardinality(candidates) > 1 THEN Raised("MultipleMatchError")
        ELSE Instance(CHOOSE W \in candidates : TRUE)

\* _check_registered_widget: the instance returned or the error raised
check_registered_widget(f, a) ==
    LET candidates == candidate_widget_types(f, a)
    IN  IF candidates = {}
        THEN IF f.default_widget_type = "None" THEN Raised("NoMatchError")
             ELSE Instance(f.default_widget_type)
        ELSE IF Cardinality(candidates) > 1 THEN Raised("MultipleMatchError")
        ELSE Instance(CHOOSE W \in candidates : TRUE)

\* the loop of register over self.validation_functions, from position k
RECURSIVE find_validation_function(_, _, _)
find_validation_function(f, W, k) ==
    IF k > Len(f.validation_functions) THEN Raised("ValidationFunctionError")
    ELSE LET attrs == WidgetAttributes(W)
             hits == {j \in 1..Len(attrs) : attrs[j][1] = f.validation_functions[k]}
         IN  IF hits = {} THEN find_validation_function(f, W, k + 1)
             ELSE LET attr == attrs[CHOOSE j \in hits : TRUE]
                  IN  IF attr[2] THEN Value(attr[3])
                      ELSE Raised("ValidationFunctionError")

\* register: the factory after the call and how the call ended
register_result(f, W, validation_function, is_default) ==
    IF is_default THEN <<[f EXCEPT !.default_widget_type = W], Returned>>
    ELSE IF validation_function # "None"
    THEN IF ~callable(validation_function) THEN <<f, Raised("AttributeError")>>
         ELSE <<[f EXCEPT !.registry = SetItem(@, W, validation_function)], Returned>>
    ELSE LET found == find_validation_function(f, W, 1)
         IN  IF found.kind = "raised" THEN <<f, found>>
             ELSE <<[f EXCEPT !.registry = SetItem(@, W, found.v)], Returned>>

\* unregister: self.registry.pop(WidgetType)
unregister_result(f, W) ==
    IF W \in DOMAIN f.registry THEN <<[f EXCEPT !.registry = Pop(@, W)], Returned>>
    ELSE <<f, Raised("KeyError")>>

InitFactory ==
    /\ \E default_widget_type \in WidgetTypes \cup {"None"},
          additional_validation_functions \in {<<>>, <<"is_datasource_for">>} :
          factory = BasicRegistrationFactory_init(default_widget_type,
                                                  additional_validation_functions)
    /\ ret = NoTrackerCall
    /\ args = <<>> /\ epl = NotBuilt
    /\ IdleCoulomb /\ IdleFluxSurface /\ IdleFlows /\ IdleTracker

idle_factory == <<args, epl, lnLambda0, fs_args, fs, all_species, fc, tracker>>

Factory_call(a) ==
    /\ ret' = [fn |-> "__call__", args |-> a,
               outcome |-> check_registered_widget(factory, a)]
    /\ UNCHANGED factory
    /\ UNCHANGED idle_factory

register(W, validation_function, is_default) ==
    LET result == register_result(factory, W, validation_function, is_default)
    IN  /\ factory' = IF result[2] = Returned
                      THEN [result[1] EXCEPT !.accepted = @ \cup {W},
                                             !.unregistered = @ \ {W}]
                      ELSE result[1]
        /\ ret' = [fn |-> "register", args |-> W, outcome |-> result[2]]
        /\ UNCHANGED idle_factory

unregister(W) ==
    LET result == unregister_result(factory, W)
    IN  /\ factory' = IF result[2] = Returned
                      THEN [result[1] EXCEPT !.accepted = @ \ {W},
                                             !.unregistered = @ \cup {W}]
                      ELSE result[1]
        /\ ret' = [fn |-> "unregister", args |-> W, outcome |-> result[2],
                   accepted_before |-> W \in factory.accepted]
        /\ UNCHANGED idle_factory

NextFactory ==
    \/ \E a \in CallArguments : Factory_call(a)
    \/ \E W \in WidgetTypes, validation_function \in ValidationFunctionArguments,
          is_default \in BOOLEAN : register(W, validation_function, is_default)
    \/ \E W \in WidgetTypes : unregister(W)

SpecFactory == InitFactory /\ [][NextFactory]_vars

(***************************************************************************)
(* Claims C22, C30                                                         *)
(***************************************************************************)
\* C22: a call of the factory returns an instance of the only registered
\* type whose validation function accepts the arguments; with no such type
\* an instance of the default type, or NoMatchError when no default is
\* set; with more than one such type MultipleMatchError, default or not.
\* Nothing is constructed when an error is raised.
C22_OneWidgetChosen ==
    ret.fn = "__call__" =>
        LET accepting == {W \in DOMAIN factory.registry :
                             ret.args \in Accepts(factory.registry[W])}
        IN  /\ Cardinality(accepting) = 1 =>
                  ret.outcome.kind = "instance" /\ ret.outcome.type \in accepting
            /\ (accepting = {} /\ factory.default_widget_type # "None") =>
                  ret.outcome = Instance(factory.default_widget_type)
            /\ (accepting = {} /\ factory.default_widget_type = "None") =>
                  ret.outcome = Raised("NoMatchError")
            /\ Cardinality(accepting) > 1 => ret.outcome = Raised("MultipleMatchError")

\* two registered types accept the arguments while a default is set
C22_Witness ==
    /\ ret.fn = "__call__"
    /\ ret.outcome = Raised("MultipleMatchError")
    /\ factory.default_widget_type # "None"
    /\ Cardinality(DOMAIN factory.registry) >= 2

\* C30: unregister(W) returns for every W that a register call accepted
\* since W was last unregistered, and no call of the factory returns an
\* instance of a type that has been unregistered and not registered again.
C30_UnregisterRemoves ==
    /\ (ret.fn = "unregister" /\ ret.accepted_before) => ret.outcome = Returned
    /\ (ret.fn = "__call__" /\ ret.outcome.kind = "instance") =>
          ret.outcome.type \notin factory.unregistered

=============================================================================
